---- MODULE Spec2Model ----
(***************************************************************************)
(* socket-server-mocker: a scripted TCP/UDP endpoint double.               *)
(*                                                                         *)
(* One mock is modelled: the controller thread that owns the handle        *)
(* (TcpServerMocker / UdpServerMocker), the worker thread that owns the    *)
(* socket (TcpServerImpl::handle_connection /                              *)
(* UdpServerImpl::handle_dgram_stream), the three mpsc channels between    *)
(* them, and the network peers.  The worker is cut into steps at its       *)
(* blocking calls (accept, read / recv_from, recv_timeout); time is        *)
(* abstracted: a timeout may fire whenever the awaited thing is absent.    *)
(***************************************************************************)
EXTENDS Naturals, Sequences, FiniteSets, TLC

(***************************************************************************)
(* Bounds of the model.                                                    *)
(***************************************************************************)
\* total number of instructions the controller submits, over all batches
MaxInstructions == 3
\* total number of bytes the peers write, over all writes / datagrams
MaxBytes == 3
\* total number of instructions submitted in the runs where the handle also
\* polls and is asked its address
MaxObserved == 2

(***************************************************************************)
(* Options and test inputs.                                                *)
(***************************************************************************)
\* TcpMockerOptions.reader_buffer_size (1024 by default), scaled down
reader_buffer_size == 2
\* UdpMockerOptions.max_packet_size: the largest UDP payload (65507 by
\* default); no datagram of the model is longer
max_packet_size == MaxBytes
\* the ports of the machine, and those another live mock is listening on
Ports == {1, 2}
OtherMocks == {1}
\* the UDP peers
Peers == {"A", "B"}
\* the TCP client whose connection the worker accepts, and a second client
\* that connects after it
TcpPeer == "A"
TcpPeer2 == "B"

\* Option<T>: None is the empty sequence, Some(x) the one-element sequence
None == << >>
Some(x) == << x >>

Min(a, b) == IF a < b THEN a ELSE b

\* the payload of the scripted SendMessage
Payloads == { <<7, 8>> }
\* the value f_reply answers when nothing was received
NothingYet == <<9>>
\* the closures carried by SendMessageDependingOnLastReceivedMessage
Calculators == {"f_none", "f_reply"}
\* the sizes carried by ReceiveMessageWithMaxSize
MaxSizes == {1}

(***************************************************************************)
(* Instruction (server_mocker_instruction.rs).                             *)
(***************************************************************************)
SendMessage(m) == [op |-> "SendMessage", msg |-> m]
SendMessageDependingOnLastReceivedMessage(f) ==
    [op |-> "SendMessageDependingOnLastReceivedMessage", f |-> f]
ReceiveMessage == [op |-> "ReceiveMessage"]
ReceiveMessageWithMaxSize(n) == [op |-> "ReceiveMessageWithMaxSize", n |-> n]
StopExchange == [op |-> "StopExchange"]

Instruction ==
    {SendMessage(m) : m \in Payloads}
    \cup {SendMessageDependingOnLastReceivedMessage(f) : f \in Calculators}
    \cup {ReceiveMessage}
    \cup {ReceiveMessageWithMaxSize(n) : n \in MaxSizes}
    \cup {StopExchange}

\* the non-empty batches of at most n instructions
Batches(n) == UNION { [1..k -> Instruction] : k \in 1..n }

IsReceive(ins) == ins.op \in {"ReceiveMessage", "ReceiveMessageWithMaxSize"}

(***************************************************************************)
(* ServerMockerInstructionsList (server_mocker_instruction.rs): the value   *)
(* of the list is its field instructions.                                  *)
(***************************************************************************)
\* a push that would insert at the front
push_front(v, x) == << x >> \o v

\* Vec::push
push(v, x) == Append(v, x)

\* <[T]>::to_vec: a new vector with a clone of each element
to_vec(slice) == [i \in 1..Len(slice) |-> slice[i]]

\* ServerMockerInstructionsList::new
list_new == << >>

new_with_instructions(slice) == to_vec(slice)

add_send_message(l, message) == push(l, SendMessage(message))
with_added_send_message(l, message) == add_send_message(l, message)

add_send_message_depending_on_last_received_message(l, message) ==
    push(l, SendMessageDependingOnLastReceivedMessage(message))
with_added_send_message_depending_on_last_received_message(l, message) ==
    add_send_message_depending_on_last_received_message(l, message)

add_receive_message(l) == push(l, ReceiveMessage)
with_added_receive_message(l) == add_receive_message(l)

add_receive_message_with_max_size(l, max_size) ==
    push(l, ReceiveMessageWithMaxSize(max_size))
with_added_receive_message_with_max_size(l, max_size) ==
    add_receive_message_with_max_size(l, max_size)

add_stop_exchange(l) == push(l, StopExchange)
with_added_stop_exchange(l) == add_stop_exchange(l)

\* the calls of the builder: the five kinds, each with its arguments
BuilderKinds ==
    {[kind |-> "send_message", arg |-> <<m>>] : m \in Payloads}
    \cup {[kind |-> "send_message_depending_on_last_received_message", arg |-> <<f>>] :
              f \in Calculators}
    \cup {[kind |-> "receive_message", arg |-> << >>]}
    \cup {[kind |-> "receive_message_with_max_size", arg |-> <<n>>] : n \in MaxSizes}
    \cup {[kind |-> "stop_exchange", arg |-> << >>]}

\* the list after the call add_<kind>(args) on l
add(l, c) ==
    CASE c.kind = "send_message" -> add_send_message(l, c.arg[1])
      [] c.kind = "send_message_depending_on_last_received_message" ->
             add_send_message_depending_on_last_received_message(l, c.arg[1])
      [] c.kind = "receive_message" -> add_receive_message(l)
      [] c.kind = "receive_message_with_max_size" ->
             add_receive_message_with_max_size(l, c.arg[1])
      [] c.kind = "stop_exchange" -> add_stop_exchange(l)

\* the list the call l.with_added_<kind>(args) returns
with_added(l, c) ==
    CASE c.kind = "send_message" -> with_added_send_message(l, c.arg[1])
      [] c.kind = "send_message_depending_on_last_received_message" ->
             with_added_send_message_depending_on_last_received_message(l, c.arg[1])
      [] c.kind = "receive_message" -> with_added_receive_message(l)
      [] c.kind = "receive_message_with_max_size" ->
             with_added_receive_message_with_max_size(l, c.arg[1])
      [] c.kind = "stop_exchange" -> with_added_stop_exchange(l)

(***************************************************************************)
(* ServerMockerError (server_mocker_error.rs).                             *)
(***************************************************************************)
ServerMockerError ==
    {"UnableToBindListener", "UnableToGetLocalAddress", "UnableToAcceptConnection",
     "UnableToSendInstructions", "UnableToSetReadTimeout", "UnableToReadTcpStream",
     "UnableToWriteTcpStream", "UnableToReadUdpStream",
     "GotSendMessageBeforeReceiveMessage", "FailedToSendUdpMessage"}

\* a classification that would take the failure of a submission for fatal
is_fatal_submission_too(e) ==
    CASE e \in {"UnableToBindListener", "UnableToGetLocalAddress",
                "UnableToAcceptConnection", "UnableToSetReadTimeout",
                "UnableToSendInstructions"} -> TRUE
      [] e \in {"UnableToReadTcpStream",
                "UnableToWriteTcpStream", "UnableToReadUdpStream",
                "GotSendMessageBeforeReceiveMessage", "FailedToSendUdpMessage"} -> FALSE

is_fatal(e) ==
    CASE e \in {"UnableToBindListener", "UnableToGetLocalAddress",
                "UnableToAcceptConnection", "UnableToSetReadTimeout"} -> TRUE
      [] e \in {"UnableToSendInstructions", "UnableToReadTcpStream",
                "UnableToWriteTcpStream", "UnableToReadUdpStream",
                "GotSendMessageBeforeReceiveMessage", "FailedToSendUdpMessage"} -> FALSE

fatal_str(e) == IF is_fatal(e) THEN "Fatal" ELSE "Non fatal"

\* the text of the #[error(..)] attribute of each variant after its "{}: ",
\* the arguments left out
error_text(e) ==
    CASE e = "UnableToBindListener" -> "Failed to bind TCP listener on port"
      [] e = "UnableToGetLocalAddress" -> "Failed to get local address of a listener"
      [] e = "UnableToAcceptConnection" -> "Failed to accept incoming connection on"
      [] e = "UnableToSendInstructions" ->
             "Failed to send instructions list to TCP server mocker"
      [] e = "UnableToSetReadTimeout" -> "Failed to set read timeout on TCP stream"
      [] e = "UnableToReadTcpStream" -> "Failed to read from TCP stream"
      [] e = "UnableToWriteTcpStream" -> "Failed to write to TCP stream"
      [] e = "UnableToReadUdpStream" -> "Failed to receive message from client"
      [] e = "GotSendMessageBeforeReceiveMessage" ->
             "SendMessage instruction received before a ReceiveMessage"
      [] e = "FailedToSendUdpMessage" -> "Failed to send message to client"

\* Display (thiserror): the pieces of the rendered message, in order
to_string(e) == << fatal_str(e), ": ", error_text(e) >>

(***************************************************************************)
(* Pure helpers of the worker.                                             *)
(***************************************************************************)
\* a truncate that would leave the vector as it is
truncate_nothing(v, n) == v

\* Vec::truncate(n): keeps the first n elements, a no-op when n >= len
truncate(v, n) == SubSeq(v, 1, Min(n, Len(v)))

\* what is left of a byte stream after its first n bytes were read
drain(v, n) == SubSeq(v, n + 1, Len(v))

\* the closure call sent_message_calculator(last_received_message)
sent_message_calculator(f, last) ==
    CASE f = "f_none" -> None
      [] f = "f_reply" -> IF last = None THEN Some(NothingYet) ELSE Some(last[1])

\* the bytes the peers write are numbered: the j-th byte ever written is j
bytes(from, len) == [i \in 1..len |-> from + i]

VARIABLES
    proto,          \* "tcp" or "udp": which mock is constructed
    os_ports,       \* the ports bound in the OS
    ctor,           \* result of the constructor call ("pending" before it)
    socket_addr,    \* the handle's bound port (0: no handle)
    handle,         \* "none", "alive", "dropped"
    pc,             \* the worker: "none", "accept", "set_timeout", "await",
                    \* "exec", "read", "done"
    exit_reason,    \* why the worker ended ("none" while it has not)
    instruction_q,  \* the instruction channel: batches in flight
    instructions,   \* the batch the for loop iterates over
    ip,             \* the position of the for loop in it
    last_received,  \* Option<Vec<u8>> (TCP), Option<(SocketAddr, Vec<u8>)> (UDP)
    whole_received_packet,  \* the accumulator of read_packet
    message_q,      \* the message channel
    error_q,        \* the error channel
    client,         \* the TCP client: "init", "connected", "closed"
    stream,         \* the worker's TcpStream: "none", "open", "closed"
    in_buf,         \* TCP: bytes written by the client and not yet read;
                    \* UDP: datagrams sent to the socket and not yet received
    nwritten,       \* number of bytes the peers have written
    sent,           \* log: what the worker handed to the socket, in order
    client_pos,     \* TCP: number of entries of sent the client has read
    client_read,    \* TCP: Option of the bytes the client's last read returned
    client2,        \* TCP: a second client: "init", "connected"
    in_buf2,        \* TCP: bytes the second client wrote on its connection
    n_accept,       \* TCP: number of times listener.accept() has returned
    list,           \* the ServerMockerInstructionsList the test is building
    executed,       \* log: the instructions the worker dispatched, in order
    submitted,      \* log: the batches add_mock_instructions accepted
    n_recv,         \* number of batches the worker took from the channel
    msg_log,        \* log: what the worker put on the message channel
    err_log,        \* log: what the worker put on the error channel
    popped_msgs,    \* log: what pop_received_message returned (Some only)
    popped_errs,    \* log: what pop_server_error returned (Some only)
    ret             \* the last return value of a controller call

vars == <<proto, os_ports, ctor, socket_addr, handle, pc, exit_reason,
          instruction_q, instructions, ip, last_received, whole_received_packet,
          message_q, error_q, client, stream, in_buf, nwritten, sent, client_pos,
          client_read, executed, submitted, n_recv, msg_log, err_log,
          popped_msgs, popped_errs, ret, client2, in_buf2, n_accept,
          list>>

ctl_vars == <<socket_addr, handle, popped_msgs, popped_errs, ret, submitted>>
peer2_vars == <<client2, in_buf2>>
net_vars == <<client, in_buf, nwritten, client_pos, client_read, peer2_vars>>
setup_vars == <<proto, os_ports, ctor>>

\* the value a call of the controller returned: Ok / Err / Some / None with
\* its content (for the constructor: its result and the port it was given)
Ret(op, res, val) == [op |-> op, res |-> res, val |-> val]
NoRet == Ret("none", "none", << >>)

Init ==
    /\ proto \in {"tcp", "udp"}
    /\ os_ports = OtherMocks
    /\ ctor = "pending"
    /\ socket_addr = 0
    /\ handle = "none"
    /\ pc = "none"
    /\ exit_reason = "none"
    /\ instruction_q = << >>
    /\ instructions = << >>
    /\ ip = 0
    /\ last_received = None
    /\ whole_received_packet = << >>
    /\ message_q = << >>
    /\ error_q = << >>
    /\ client = "init"
    /\ stream = "none"
    /\ in_buf = << >>
    /\ nwritten = 0
    /\ sent = << >>
    /\ client_pos = 0
    /\ client_read = None
    /\ executed = << >>
    /\ submitted = << >>
    /\ n_recv = 0
    /\ msg_log = << >>
    /\ err_log = << >>
    /\ popped_msgs = << >>
    /\ popped_errs = << >>
    /\ ret = NoRet
    /\ client2 = "init"
    /\ in_buf2 = << >>
    /\ n_accept = 0
    /\ list = << >>


(***************************************************************************)
(* The worker's bookkeeping.                                               *)
(***************************************************************************)
\* the instruction the for loop is at
Current == instructions[ip]

\* the index in executed of the instruction being dispatched
At == Len(executed) + 1

\* a worker that would forget what it received
LastMessage_forgotten == None

\* the message part of the last-received state
LastMessage ==
    IF last_received = None THEN None
    ELSE IF proto = "tcp" THEN last_received ELSE Some(last_received[1].msg)

Dispatched(arg) == [k |-> n_recv, j |-> ip, ins |-> Current, arg |-> arg]

\* end of the body of the for loop: the next instruction of the batch, or
\* back to recv_timeout when the batch is exhausted
Advance ==
    /\ IF ip < Len(instructions)
       THEN pc' = "exec" /\ ip' = ip + 1 /\ instructions' = instructions
       ELSE pc' = "await" /\ ip' = 0 /\ instructions' = << >>
    /\ UNCHANGED <<exit_reason, stream>>

\* a return that would leave the connection open
Terminate_keep_stream(reason) ==
    /\ pc' = "done"
    /\ exit_reason' = reason
    /\ ip' = 0
    /\ instructions' = << >>
    /\ stream' = stream

\* the worker thread returns (or unwinds): its TcpStream is dropped
Terminate(reason) ==
    /\ pc' = "done"
    /\ exit_reason' = reason
    /\ ip' = 0
    /\ instructions' = << >>
    /\ stream' = IF stream = "open" THEN "closed" ELSE stream

\* error_tx.send(e).unwrap(), then Continue: the send fails, and unwrap
\* panics, when the handle (the receiver) was dropped
SendError(e, at, Continue) ==
    IF handle = "dropped"
    THEN UNCHANGED <<error_q, err_log>> /\ Terminate("panic")
    ELSE /\ error_q' = Append(error_q, e)
         /\ err_log' = Append(err_log, [at |-> at, err |-> e])
         /\ Continue

\* message_tx.send(m).unwrap(), then the next instruction; the log keeps, with
\* m, the packet it was made from and the peer that sent it
SendReceived(packet, m, at) ==
    IF handle = "dropped"
    THEN UNCHANGED <<message_q, msg_log>> /\ Terminate("panic")
    ELSE /\ message_q' = Append(message_q, m)
         /\ msg_log' = Append(msg_log,
                [at |-> at, raw |-> packet, msg |-> m,
                 from |-> IF proto = "tcp" THEN TcpPeer ELSE Head(in_buf).addr])
         /\ Advance

(***************************************************************************)
(* The constructor (TcpServerMocker::new_with_opts /                       *)
(* UdpServerMocker::new_with_opts).                                        *)
(***************************************************************************)
\* a bind that would share a port that is taken
bind_shared(port) == IF port = 0 THEN Ports \ os_ports ELSE {port}

\* the addresses bind() can give for a requested port; none when the port is
\* taken
bind(port) == IF port = 0 THEN Ports \ os_ports ELSE {port} \ os_ports

new_with_opts(port) ==
    /\ ctor = "pending"
    /\ IF bind(port) = {}
       THEN \* bind failed: `?` returns before thread::spawn
            /\ ctor' = "UnableToBindListener"
            /\ UNCHANGED <<os_ports, socket_addr, handle, pc>>
       ELSE \E addr \in bind(port), local_addr_ok \in BOOLEAN :
              IF ~local_addr_ok
              THEN /\ ctor' = "UnableToGetLocalAddress"
                   /\ UNCHANGED <<os_ports, socket_addr, handle, pc>>
              ELSE /\ ctor' = "Ok"
                   /\ os_ports' = os_ports \cup {addr}
                   /\ socket_addr' = addr
                   /\ handle' = "alive"
                   /\ pc' = IF proto = "tcp" THEN "accept" ELSE "set_timeout"
    /\ ret' = Ret("new_with_opts", ctor', <<port>>)
    /\ UNCHANGED <<proto, exit_reason, instruction_q, instructions, ip,
                   last_received, whole_received_packet, message_q, error_q,
                   stream, sent, executed, n_recv, msg_log, err_log,
                   popped_msgs, popped_errs, submitted, n_accept, list>>
    /\ UNCHANGED net_vars

(***************************************************************************)
(* The worker: setup.                                                      *)
(***************************************************************************)
\* listener.accept() returns the connection of the client
TcpAccept ==
    /\ pc = "accept"
    /\ client # "init"
    /\ pc' = "set_timeout"
    /\ stream' = "open"
    /\ UNCHANGED <<exit_reason, instructions, ip, error_q, err_log>>
    /\ UNCHANGED <<instruction_q, last_received, whole_received_packet, message_q,
                   sent, executed, n_recv, msg_log>>
    /\ UNCHANGED <<ctl_vars, net_vars, setup_vars, list>>
    /\ n_accept' = n_accept + 1

\* listener.accept() fails: the error goes to the error channel
TcpAcceptFail ==
    /\ pc = "accept"
    /\ SendError("UnableToAcceptConnection", 0, Terminate("fatal"))
    /\ UNCHANGED <<instruction_q, last_received, whole_received_packet, message_q,
                   sent, executed, n_recv, msg_log>>
    /\ UNCHANGED <<ctl_vars, net_vars, setup_vars, list>>
    /\ n_accept' = n_accept + 1

\* set_read_timeout(Some(net_timeout)) succeeds; last received is None
SetReadTimeout ==
    /\ pc = "set_timeout"
    /\ pc' = "await"
    /\ last_received' = None
    /\ UNCHANGED <<exit_reason, instructions, ip, stream, error_q, err_log>>
    /\ UNCHANGED <<instruction_q, whole_received_packet, message_q,
                   sent, executed, n_recv, msg_log>>
    /\ UNCHANGED <<ctl_vars, net_vars, setup_vars, list>>
    /\ UNCHANGED n_accept

\* a set_read_timeout failure that would be reported without the return
SetReadTimeoutFail_no_return ==
    /\ pc = "set_timeout"
    /\ SendError("UnableToSetReadTimeout", 0,
                 pc' = "await" /\ UNCHANGED <<exit_reason, instructions, ip, stream>>)
    /\ UNCHANGED <<instruction_q, last_received, whole_received_packet, message_q,
                   sent, executed, n_recv, msg_log>>
    /\ UNCHANGED <<ctl_vars, net_vars, setup_vars, list>>
    /\ UNCHANGED n_accept

\* set_read_timeout fails (a zero net_timeout): fatal, the worker returns
SetReadTimeoutFail ==
    /\ pc = "set_timeout"
    /\ SendError("UnableToSetReadTimeout", 0, Terminate("fatal"))
    /\ UNCHANGED <<instruction_q, last_received, whole_received_packet, message_q,
                   sent, executed, n_recv, msg_log>>
    /\ UNCHANGED <<ctl_vars, net_vars, setup_vars, list>>
    /\ UNCHANGED n_accept

(***************************************************************************)
(* The worker: the instruction channel.                                    *)
(***************************************************************************)
\* a channel that hands out the newest batch instead of the oldest
recv_timeout_newest(q) == q[Len(q)]

\* the batch instruction_rx.recv_timeout(rx_timeout) returns
recv_timeout(q) == Head(q)

\* while let Ok(instructions) = recv_timeout(..): a batch is there
RecvInstructions ==
    /\ pc = "await"
    /\ instruction_q # << >>
    /\ instructions' = recv_timeout(instruction_q)
    /\ instruction_q' = Tail(instruction_q)
    /\ n_recv' = n_recv + 1
    /\ ip' = 1
    /\ pc' = "exec"
    /\ UNCHANGED <<exit_reason, stream, error_q, err_log>>
    /\ UNCHANGED <<last_received, whole_received_packet, message_q, sent, executed,
                   msg_log>>
    /\ UNCHANGED <<ctl_vars, net_vars, setup_vars, list>>
    /\ UNCHANGED n_accept

\* a worker that would report the end of its wait as an error
RecvTimeout_reported ==
    /\ pc = "await"
    /\ instruction_q = << >>
    /\ SendError("UnableToSendInstructions", Len(executed),
                 Terminate(IF handle = "dropped" THEN "disconnected" ELSE "starved"))
    /\ UNCHANGED <<instruction_q, last_received, whole_received_packet, message_q,
                   sent, executed, n_recv, msg_log>>
    /\ UNCHANGED <<ctl_vars, net_vars, setup_vars, list>>
    /\ UNCHANGED n_accept

\* a worker whose rx_timeout would run from the start of the thread: it could
\* end while it is still in accept, whatever waits in the channel
RecvTimeout_from_spawn ==
    /\ pc \in {"accept", "await"}
    /\ pc = "await" => instruction_q = << >>
    /\ Terminate(IF handle = "dropped" THEN "disconnected" ELSE "starved")
    /\ UNCHANGED <<error_q, err_log>>
    /\ UNCHANGED <<instruction_q, last_received, whole_received_packet, message_q,
                   sent, executed, n_recv, msg_log>>
    /\ UNCHANGED <<ctl_vars, net_vars, setup_vars, list>>
    /\ UNCHANGED n_accept

\* a wait that could end by its timeout although a batch is in the channel
RecvTimeout_despite_batch ==
    /\ pc = "await"
    /\ Terminate(IF handle = "dropped" THEN "disconnected" ELSE "starved")
    /\ UNCHANGED <<error_q, err_log>>
    /\ UNCHANGED <<instruction_q, last_received, whole_received_packet, message_q,
                   sent, executed, n_recv, msg_log>>
    /\ UNCHANGED <<ctl_vars, net_vars, setup_vars, list>>
    /\ UNCHANGED n_accept

\* recv_timeout returns Err: no batch came within rx_timeout, or the sender
\* (the handle) is gone and the channel is empty; the while loop ends
RecvTimeout ==
    /\ pc = "await"
    /\ instruction_q = << >>
    /\ Terminate(IF handle = "dropped" THEN "disconnected" ELSE "starved")
    /\ UNCHANGED <<error_q, err_log>>
    /\ UNCHANGED <<instruction_q, last_received, whole_received_packet, message_q,
                   sent, executed, n_recv, msg_log>>
    /\ UNCHANGED <<ctl_vars, net_vars, setup_vars, list>>
    /\ UNCHANGED n_accept

(***************************************************************************)
(* The worker: sending.                                                    *)
(***************************************************************************)
Ok(to) == [ok |-> TRUE, to |-> to, err |-> "none"]
Err(e) == [ok |-> FALSE, to |-> "none", err |-> e]

\* a send_packet that would write to the connection of the newest client
send_packet_newest_client(packet) ==
    {Ok(IF client2 = "connected" THEN TcpPeer2 ELSE TcpPeer)}
    \cup (IF client = "closed" THEN {Err("UnableToWriteTcpStream")} ELSE {})

\* a send_packet that would ask for an earlier receive, as the UDP engine does
send_packet_after_receive_only(packet) ==
    IF last_received = None
    THEN {Err("GotSendMessageBeforeReceiveMessage")}
    ELSE {Ok(TcpPeer)} \cup (IF client = "closed" THEN {Err("UnableToWriteTcpStream")} ELSE {})

\* TcpServerImpl::send_packet: the results stream.write_all(packet) can
\* have; it can fail once the client has closed the connection
send_packet(packet) ==
    {Ok(TcpPeer)} \cup (IF client = "closed" THEN {Err("UnableToWriteTcpStream")} ELSE {})

\* a send_packet_to_last_client that would not look for the address first
send_packet_to_last_client_unchecked(message_to_send, last) ==
    IF last = None
    THEN {Ok("0.0.0.0")}
    ELSE {Ok(last[1].addr), Err("FailedToSendUdpMessage")}

\* UdpServerImpl::send_packet_to_last_client: the results it can have
send_packet_to_last_client(message_to_send, last) ==
    IF last = None
    THEN {Err("GotSendMessageBeforeReceiveMessage")}
    ELSE {Ok(last[1].addr), Err("FailedToSendUdpMessage")}

\* if let Err(e) = send(..) { error_tx.send(e).unwrap() }
Send(packet) ==
    \E r \in (IF proto = "tcp" THEN send_packet(packet)
              ELSE send_packet_to_last_client(packet, last_received)) :
        IF r.ok
        THEN /\ sent' = Append(sent, [at |-> At, to |-> r.to, data |-> packet])
             /\ UNCHANGED <<error_q, err_log>>
             /\ Advance
        ELSE /\ UNCHANGED sent
             /\ SendError(r.err, At, Advance)

\* a SendMessage arm that would take the last received message away
ExecSendMessage_takes_last ==
    /\ pc = "exec"
    /\ Current.op = "SendMessage"
    /\ executed' = Append(executed, Dispatched(None))
    /\ Send(Current.msg)
    /\ last_received' = IF proto = "tcp" THEN None ELSE last_received
    /\ UNCHANGED <<instruction_q, whole_received_packet, message_q,
                   n_recv, msg_log>>
    /\ UNCHANGED <<ctl_vars, net_vars, setup_vars, list>>
    /\ UNCHANGED n_accept

\* the arm SendMessage(binary_message)
ExecSendMessage ==
    /\ pc = "exec"
    /\ Current.op = "SendMessage"
    /\ executed' = Append(executed, Dispatched(None))
    /\ Send(Current.msg)
    /\ UNCHANGED <<instruction_q, last_received, whole_received_packet, message_q,
                   n_recv, msg_log>>
    /\ UNCHANGED <<ctl_vars, net_vars, setup_vars, list>>
    /\ UNCHANGED n_accept

\* an arm that would call the send whatever the closure returns, with no
\* bytes when it returns None
ExecSendMessageDepending_unconditional ==
    /\ pc = "exec"
    /\ Current.op = "SendMessageDependingOnLastReceivedMessage"
    /\ LET message_to_send == sent_message_calculator(Current.f, LastMessage)
       IN  /\ executed' = Append(executed, Dispatched(LastMessage))
           /\ IF message_to_send # None
              THEN Send(message_to_send[1])
              ELSE Send(<< >>)
    /\ UNCHANGED <<instruction_q, last_received, whole_received_packet, message_q,
                   n_recv, msg_log>>
    /\ UNCHANGED <<ctl_vars, net_vars, setup_vars, list>>
    /\ UNCHANGED n_accept

\* the arm SendMessageDependingOnLastReceivedMessage(sent_message_calculator)
ExecSendMessageDepending ==
    /\ pc = "exec"
    /\ Current.op = "SendMessageDependingOnLastReceivedMessage"
    /\ LET message_to_send == sent_message_calculator(Current.f, LastMessage)
       IN  /\ executed' = Append(executed, Dispatched(LastMessage))
           /\ IF message_to_send # None
              THEN Send(message_to_send[1])
              ELSE UNCHANGED <<sent, error_q, err_log>> /\ Advance
    /\ UNCHANGED <<instruction_q, last_received, whole_received_packet, message_q,
                   n_recv, msg_log>>
    /\ UNCHANGED <<ctl_vars, net_vars, setup_vars, list>>
    /\ UNCHANGED n_accept

\* a StopExchange arm that only leaves the match, like the other arms
ExecStopExchange_continue ==
    /\ pc = "exec"
    /\ Current.op = "StopExchange"
    /\ executed' = Append(executed, Dispatched(None))
    /\ Advance
    /\ UNCHANGED <<instruction_q, last_received, whole_received_packet, message_q,
                   error_q, sent, n_recv, msg_log, err_log>>
    /\ UNCHANGED <<ctl_vars, net_vars, setup_vars, list>>
    /\ UNCHANGED n_accept

\* the arm StopExchange: return
ExecStopExchange ==
    /\ pc = "exec"
    /\ Current.op = "StopExchange"
    /\ executed' = Append(executed, Dispatched(None))
    /\ Terminate("stop")
    /\ UNCHANGED <<instruction_q, last_received, whole_received_packet, message_q,
                   error_q, sent, n_recv, msg_log, err_log>>
    /\ UNCHANGED <<ctl_vars, net_vars, setup_vars, list>>
    /\ UNCHANGED n_accept

(***************************************************************************)
(* The worker: receiving.                                                  *)
(***************************************************************************)
\* the message the arm records and forwards, from what was read
Received(ins, packet) ==
    IF ins.op = "ReceiveMessageWithMaxSize" THEN truncate(packet, ins.n) ELSE packet

\* stream.read(&mut buffer): the number of bytes it returns when it returns
\* Ok (0 at end of stream)
read(buffer_size) == Min(buffer_size, Len(in_buf))

\* a read_packet that would return what its first read gave, without a loop
TcpRead_single_read ==
    /\ proto = "tcp"
    /\ pc \in {"exec", "read"}
    /\ IsReceive(Current)
    /\ in_buf # << >> \/ client = "closed"
    /\ LET bytes_read == read(reader_buffer_size)
           at == IF pc = "exec" THEN At ELSE Len(executed)
           packet == whole_received_packet \o SubSeq(in_buf, 1, bytes_read)
       IN  /\ in_buf' = drain(in_buf, bytes_read)
           /\ executed' = IF pc = "exec" THEN Append(executed, Dispatched(None))
                          ELSE executed
           /\ whole_received_packet' = << >>
           /\ last_received' = Some(Received(Current, packet))
           /\ SendReceived(packet, Received(Current, packet), at)
    /\ UNCHANGED <<instruction_q, error_q, err_log, sent, n_recv>>
    /\ UNCHANGED <<ctl_vars, setup_vars, list, client, nwritten, client_pos, client_read,
                   peer2_vars>>
    /\ UNCHANGED n_accept

\* a receive arm that would record the packet as it was read and forward
\* what the instruction made of it
TcpRead_records_whole ==
    /\ proto = "tcp"
    /\ pc \in {"exec", "read"}
    /\ IsReceive(Current)
    /\ in_buf # << >> \/ client = "closed"
    /\ LET bytes_read == read(reader_buffer_size)
           at == IF pc = "exec" THEN At ELSE Len(executed)
           packet == whole_received_packet \o SubSeq(in_buf, 1, bytes_read)
       IN  /\ in_buf' = drain(in_buf, bytes_read)
           /\ executed' = IF pc = "exec" THEN Append(executed, Dispatched(None))
                          ELSE executed
           /\ IF bytes_read < reader_buffer_size
              THEN /\ whole_received_packet' = << >>
                   /\ last_received' = Some(packet)
                   /\ SendReceived(packet, Received(Current, packet), at)
              ELSE /\ whole_received_packet' = packet
                   /\ pc' = "read"
                   /\ UNCHANGED <<last_received, message_q, msg_log, exit_reason,
                                  instructions, ip, stream>>
    /\ UNCHANGED <<instruction_q, error_q, err_log, sent, n_recv>>
    /\ UNCHANGED <<ctl_vars, setup_vars, list, client, nwritten, client_pos, client_read,
                   peer2_vars>>
    /\ UNCHANGED n_accept

\* one turn of the loop of TcpServerImpl::read_packet whose read returns Ok,
\* and the Ok arm of the match when the loop breaks
TcpRead ==
    /\ proto = "tcp"
    /\ pc \in {"exec", "read"}
    /\ IsReceive(Current)
    /\ in_buf # << >> \/ client = "closed"
    /\ LET bytes_read == read(reader_buffer_size)
           at == IF pc = "exec" THEN At ELSE Len(executed)
           packet == whole_received_packet \o SubSeq(in_buf, 1, bytes_read)
       IN  /\ in_buf' = drain(in_buf, bytes_read)
           /\ executed' = IF pc = "exec" THEN Append(executed, Dispatched(None))
                          ELSE executed
           /\ IF bytes_read < reader_buffer_size
              THEN /\ whole_received_packet' = << >>
                   /\ last_received' = Some(Received(Current, packet))
                   /\ SendReceived(packet, Received(Current, packet), at)
              ELSE /\ whole_received_packet' = packet
                   /\ pc' = "read"
                   /\ UNCHANGED <<last_received, message_q, msg_log, exit_reason,
                                  instructions, ip, stream>>
    /\ UNCHANGED <<instruction_q, error_q, err_log, sent, n_recv>>
    /\ UNCHANGED <<ctl_vars, setup_vars, list, client, nwritten, client_pos, client_read,
                   peer2_vars>>
    /\ UNCHANGED n_accept

\* a read_packet that would take the timeout for the end of the message and
\* return what it has accumulated
TcpReadTimeout_ends_message ==
    /\ proto = "tcp"
    /\ pc \in {"exec", "read"}
    /\ IsReceive(Current)
    /\ in_buf = << >> /\ client # "closed"
    /\ executed' = IF pc = "exec" THEN Append(executed, Dispatched(None))
                   ELSE executed
    /\ whole_received_packet' = << >>
    /\ last_received' = Some(Received(Current, whole_received_packet))
    /\ SendReceived(whole_received_packet, Received(Current, whole_received_packet),
                    IF pc = "exec" THEN At ELSE Len(executed))
    /\ UNCHANGED <<instruction_q, error_q, err_log, sent, n_recv>>
    /\ UNCHANGED <<ctl_vars, net_vars, setup_vars, list>>
    /\ UNCHANGED n_accept

\* a receive arm that would clear the last received message on a read error
TcpReadTimeout_forgets ==
    /\ proto = "tcp"
    /\ pc \in {"exec", "read"}
    /\ IsReceive(Current)
    /\ in_buf = << >> /\ client # "closed"
    /\ executed' = IF pc = "exec" THEN Append(executed, Dispatched(None))
                   ELSE executed
    /\ whole_received_packet' = << >>
    /\ last_received' = None
    /\ SendError("UnableToReadTcpStream", IF pc = "exec" THEN At ELSE Len(executed),
                 Advance)
    /\ UNCHANGED <<instruction_q, message_q, msg_log, sent, n_recv>>
    /\ UNCHANGED <<ctl_vars, net_vars, setup_vars, list>>
    /\ UNCHANGED n_accept

\* a read_packet that would take the end of the stream for a failed read
TcpReadTimeout_also_at_eof ==
    /\ proto = "tcp"
    /\ pc \in {"exec", "read"}
    /\ IsReceive(Current)
    /\ in_buf = << >>
    /\ executed' = IF pc = "exec" THEN Append(executed, Dispatched(None))
                   ELSE executed
    /\ whole_received_packet' = << >>
    /\ SendError("UnableToReadTcpStream", IF pc = "exec" THEN At ELSE Len(executed),
                 Advance)
    /\ UNCHANGED <<instruction_q, last_received, message_q, msg_log, sent, n_recv>>
    /\ UNCHANGED <<ctl_vars, net_vars, setup_vars, list>>
    /\ UNCHANGED n_accept

\* a receive arm that would go on to the next instruction on a read error
\* without reporting it
TcpReadTimeout_silent ==
    /\ proto = "tcp"
    /\ pc \in {"exec", "read"}
    /\ IsReceive(Current)
    /\ in_buf = << >> /\ client # "closed"
    /\ executed' = IF pc = "exec" THEN Append(executed, Dispatched(None))
                   ELSE executed
    /\ whole_received_packet' = << >>
    /\ Advance
    /\ UNCHANGED <<error_q, err_log>>
    /\ UNCHANGED <<instruction_q, last_received, message_q, msg_log, sent, n_recv>>
    /\ UNCHANGED <<ctl_vars, net_vars, setup_vars, list>>
    /\ UNCHANGED n_accept

\* a read of read_packet returns Err (nothing came within net_timeout):
\* `?` drops what was accumulated, the Err arm reports the error
TcpReadTimeout ==
    /\ proto = "tcp"
    /\ pc \in {"exec", "read"}
    /\ IsReceive(Current)
    /\ in_buf = << >> /\ client # "closed"
    /\ executed' = IF pc = "exec" THEN Append(executed, Dispatched(None))
                   ELSE executed
    /\ whole_received_packet' = << >>
    /\ SendError("UnableToReadTcpStream", IF pc = "exec" THEN At ELSE Len(executed),
                 Advance)
    /\ UNCHANGED <<instruction_q, last_received, message_q, msg_log, sent, n_recv>>
    /\ UNCHANGED <<ctl_vars, net_vars, setup_vars, list>>
    /\ UNCHANGED n_accept

\* UdpServerImpl::receive_packet(max_packet_size) returning Ok: recv_from
\* fills a buffer of max_packet_size bytes with the start of the datagram
receive_packet(dgram, size) == [addr |-> dgram.addr, msg |-> truncate(dgram.data, size)]

\* a receive arm that would keep the address of the first sender
UdpReceive_first_sender ==
    /\ proto = "udp"
    /\ pc = "exec"
    /\ IsReceive(Current)
    /\ in_buf # << >>
    /\ LET received == receive_packet(Head(in_buf),
                          IF Current.op = "ReceiveMessage" THEN max_packet_size
                          ELSE Current.n)
       IN  /\ in_buf' = Tail(in_buf)
           /\ executed' = Append(executed, Dispatched(None))
           /\ last_received' =
                 IF last_received = None THEN Some(received)
                 ELSE Some([addr |-> last_received[1].addr, msg |-> received.msg])
           /\ SendReceived(Head(in_buf).data, received.msg, At)
    /\ UNCHANGED <<instruction_q, whole_received_packet, error_q, err_log, sent, n_recv>>
    /\ UNCHANGED <<ctl_vars, setup_vars, list, client, nwritten, client_pos, client_read,
                   peer2_vars>>
    /\ UNCHANGED n_accept

\* a receive that would take from the socket the bytes it returns only, and
\* leave the rest of the datagram for the next receive
UdpReceive_keeps_rest ==
    /\ proto = "udp"
    /\ pc = "exec"
    /\ IsReceive(Current)
    /\ in_buf # << >>
    /\ LET size == IF Current.op = "ReceiveMessage" THEN max_packet_size ELSE Current.n
           received == receive_packet(Head(in_buf), size)
       IN  /\ in_buf' =
                 IF Len(Head(in_buf).data) > size
                 THEN << [addr |-> Head(in_buf).addr,
                          data |-> drain(Head(in_buf).data, size)] >> \o Tail(in_buf)
                 ELSE Tail(in_buf)
           /\ executed' = Append(executed, Dispatched(None))
           /\ last_received' = Some(received)
           /\ SendReceived(Head(in_buf).data, received.msg, At)
    /\ UNCHANGED <<instruction_q, whole_received_packet, error_q, err_log, sent, n_recv>>
    /\ UNCHANGED <<ctl_vars, setup_vars, list, client, nwritten, client_pos, client_read,
                   peer2_vars>>
    /\ UNCHANGED n_accept

\* the receive arms of handle_dgram_stream when a datagram is there
UdpReceive ==
    /\ proto = "udp"
    /\ pc = "exec"
    /\ IsReceive(Current)
    /\ in_buf # << >>
    /\ LET received == receive_packet(Head(in_buf),
                          IF Current.op = "ReceiveMessage" THEN max_packet_size
                          ELSE Current.n)
       IN  /\ in_buf' = Tail(in_buf)
           /\ executed' = Append(executed, Dispatched(None))
           /\ last_received' = Some(received)
           /\ SendReceived(Head(in_buf).data, received.msg, At)
    /\ UNCHANGED <<instruction_q, whole_received_packet, error_q, err_log, sent, n_recv>>
    /\ UNCHANGED <<ctl_vars, setup_vars, list, client, nwritten, client_pos, client_read,
                   peer2_vars>>
    /\ UNCHANGED n_accept

\* a receive arm that would return from the worker on a read error
UdpReceiveTimeout_return ==
    /\ proto = "udp"
    /\ pc = "exec"
    /\ IsReceive(Current)
    /\ in_buf = << >>
    /\ executed' = Append(executed, Dispatched(None))
    /\ SendError("UnableToReadUdpStream", At, Terminate("read_error"))
    /\ UNCHANGED <<instruction_q, last_received, whole_received_packet, message_q,
                   msg_log, sent, n_recv>>
    /\ UNCHANGED <<ctl_vars, net_vars, setup_vars, list>>
    /\ UNCHANGED n_accept

\* a receive arm that would clear the last-received state on a read error
UdpReceiveTimeout_forgets ==
    /\ proto = "udp"
    /\ pc = "exec"
    /\ IsReceive(Current)
    /\ in_buf = << >>
    /\ executed' = Append(executed, Dispatched(None))
    /\ last_received' = None
    /\ SendError("UnableToReadUdpStream", At, Advance)
    /\ UNCHANGED <<instruction_q, whole_received_packet, message_q,
                   msg_log, sent, n_recv>>
    /\ UNCHANGED <<ctl_vars, net_vars, setup_vars, list>>
    /\ UNCHANGED n_accept

\* recv_from returns Err: no datagram came within net_timeout
UdpReceiveTimeout ==
    /\ proto = "udp"
    /\ pc = "exec"
    /\ IsReceive(Current)
    /\ in_buf = << >>
    /\ executed' = Append(executed, Dispatched(None))
    /\ SendError("UnableToReadUdpStream", At, Advance)
    /\ UNCHANGED <<instruction_q, last_received, whole_received_packet, message_q,
                   msg_log, sent, n_recv>>
    /\ UNCHANGED <<ctl_vars, net_vars, setup_vars, list>>
    /\ UNCHANGED n_accept

(***************************************************************************)
(* The controller: the methods of the handle.                              *)
(***************************************************************************)
worker_vars == <<pc, exit_reason, instructions, ip, stream, last_received,
                 whole_received_packet, sent, executed, n_recv, msg_log, err_log,
                 n_accept>>

RECURSIVE FlatLen(_)
\* the number of instructions in a sequence of batches
FlatLen(bs) == IF bs = << >> THEN 0 ELSE Len(Head(bs)) + FlatLen(Tail(bs))

\* a submission that would succeed whether the worker is there or not
add_mock_instructions_unchecked(batch) ==
    /\ handle = "alive"
    /\ instruction_q' = Append(instruction_q, batch)
    /\ submitted' = Append(submitted, batch)
    /\ ret' = Ret("add_mock_instructions", "Ok", << >>)
    /\ UNCHANGED <<socket_addr, handle, popped_msgs, popped_errs, message_q, error_q>>
    /\ UNCHANGED <<worker_vars, net_vars, setup_vars, list>>

\* instruction_tx.send(instructions).map_err(UnableToSendInstructions): the
\* send fails when the worker's receiver is gone (the thread has ended)
add_mock_instructions(batch) ==
    /\ handle = "alive"
    /\ IF pc # "done"
       THEN /\ instruction_q' = Append(instruction_q, batch)
            /\ submitted' = Append(submitted, batch)
            /\ ret' = Ret("add_mock_instructions", "Ok", << >>)
       ELSE /\ UNCHANGED <<instruction_q, submitted>>
            /\ ret' = Ret("add_mock_instructions", "Err", <<"UnableToSendInstructions">>)
    /\ UNCHANGED <<socket_addr, handle, popped_msgs, popped_errs, message_q, error_q>>
    /\ UNCHANGED <<worker_vars, net_vars, setup_vars, list>>

\* a poll that would take the newest message of the channel
pop_received_message_newest ==
    /\ handle = "alive"
    /\ IF message_q # << >>
       THEN /\ message_q' = SubSeq(message_q, 1, Len(message_q) - 1)
            /\ popped_msgs' = Append(popped_msgs, message_q[Len(message_q)])
            /\ ret' = Ret("pop_received_message", "Some", message_q[Len(message_q)])
       ELSE /\ UNCHANGED <<message_q, popped_msgs>>
            /\ ret' = Ret("pop_received_message", "None", << >>)
    /\ UNCHANGED <<socket_addr, handle, popped_errs, submitted, instruction_q, error_q>>
    /\ UNCHANGED <<worker_vars, net_vars, setup_vars, list>>

\* a poll that would wait without a timeout (recv): it returns when a message
\* is there, or when the worker has ended and the channel is disconnected
pop_received_message_blocking ==
    /\ handle = "alive"
    /\ message_q # << >> \/ pc = "done"
    /\ IF message_q # << >>
       THEN /\ message_q' = Tail(message_q)
            /\ popped_msgs' = Append(popped_msgs, Head(message_q))
            /\ ret' = Ret("pop_received_message", "Some", Head(message_q))
       ELSE /\ UNCHANGED <<message_q, popped_msgs>>
            /\ ret' = Ret("pop_received_message", "None", << >>)
    /\ UNCHANGED <<socket_addr, handle, popped_errs, submitted, instruction_q, error_q>>
    /\ UNCHANGED <<worker_vars, net_vars, setup_vars, list>>

\* message_rx.recv_timeout(net_timeout).ok()
pop_received_message ==
    /\ handle = "alive"
    /\ IF message_q # << >>
       THEN /\ message_q' = Tail(message_q)
            /\ popped_msgs' = Append(popped_msgs, Head(message_q))
            /\ ret' = Ret("pop_received_message", "Some", Head(message_q))
       ELSE /\ UNCHANGED <<message_q, popped_msgs>>
            /\ ret' = Ret("pop_received_message", "None", << >>)
    /\ UNCHANGED <<socket_addr, handle, popped_errs, submitted, instruction_q, error_q>>
    /\ UNCHANGED <<worker_vars, net_vars, setup_vars, list>>

\* a poll that would take a channel whose sender is gone for an empty one
pop_server_error_disconnected ==
    /\ handle = "alive"
    /\ IF error_q # << >> /\ pc # "done"
       THEN /\ error_q' = Tail(error_q)
            /\ popped_errs' = Append(popped_errs, Head(error_q))
            /\ ret' = Ret("pop_server_error", "Some", <<Head(error_q)>>)
       ELSE /\ UNCHANGED <<error_q, popped_errs>>
            /\ ret' = Ret("pop_server_error", "None", << >>)
    /\ UNCHANGED <<socket_addr, handle, popped_msgs, submitted, instruction_q, message_q>>
    /\ UNCHANGED <<worker_vars, net_vars, setup_vars, list>>

\* a poll that would read the oldest error and leave it in the channel
pop_server_error_peek ==
    /\ handle = "alive"
    /\ IF error_q # << >>
       THEN /\ error_q' = error_q
            /\ popped_errs' = Append(popped_errs, Head(error_q))
            /\ ret' = Ret("pop_server_error", "Some", <<Head(error_q)>>)
       ELSE /\ UNCHANGED <<error_q, popped_errs>>
            /\ ret' = Ret("pop_server_error", "None", << >>)
    /\ UNCHANGED <<socket_addr, handle, popped_msgs, submitted, instruction_q, message_q>>
    /\ UNCHANGED <<worker_vars, net_vars, setup_vars, list>>

\* error_rx.recv_timeout(net_timeout).ok()
pop_server_error ==
    /\ handle = "alive"
    /\ IF error_q # << >>
       THEN /\ error_q' = Tail(error_q)
            /\ popped_errs' = Append(popped_errs, Head(error_q))
            /\ ret' = Ret("pop_server_error", "Some", <<Head(error_q)>>)
       ELSE /\ UNCHANGED <<error_q, popped_errs>>
            /\ ret' = Ret("pop_server_error", "None", << >>)
    /\ UNCHANGED <<socket_addr, handle, popped_msgs, submitted, instruction_q, message_q>>
    /\ UNCHANGED <<worker_vars, net_vars, setup_vars, list>>

\* a socket_address that would give the port of the default options, 0,
\* instead of the address the listener was bound to
socket_address_of_options ==
    /\ handle = "alive"
    /\ ret' = Ret("socket_address", "Some", <<0>>)
    /\ UNCHANGED <<socket_addr, handle, popped_msgs, popped_errs, submitted,
                   instruction_q, message_q, error_q>>
    /\ UNCHANGED <<worker_vars, net_vars, setup_vars, list>>

\* self.socket_addr
socket_address ==
    /\ handle = "alive"
    /\ ret' = Ret("socket_address", "Some", <<socket_addr>>)
    /\ UNCHANGED <<socket_addr, handle, popped_msgs, popped_errs, submitted,
                   instruction_q, message_q, error_q>>
    /\ UNCHANGED <<worker_vars, net_vars, setup_vars, list>>

\* the handle goes out of scope: instruction_tx, message_rx and error_rx are
\* dropped; the worker thread is neither joined nor stopped
DropHandle ==
    /\ handle = "alive"
    /\ handle' = "dropped"
    /\ UNCHANGED <<socket_addr, popped_msgs, popped_errs, submitted, ret,
                   instruction_q, message_q, error_q>>
    /\ UNCHANGED <<worker_vars, net_vars, setup_vars, list>>

(***************************************************************************)
(* The peers.                                                              *)
(***************************************************************************)
chan_vars == <<instruction_q, message_q, error_q>>

\* TcpStream::connect(server.socket_address()): the connection waits in the
\* listener's backlog until the worker accepts it
ClientConnect ==
    /\ proto = "tcp"
    /\ pc = "accept"
    /\ client = "init"
    /\ client' = "connected"
    /\ UNCHANGED <<in_buf, nwritten, client_pos, client_read, peer2_vars>>
    /\ UNCHANGED <<worker_vars, ctl_vars, chan_vars, setup_vars, list>>

\* client.write_all(..) of len bytes
ClientWrite(len) ==
    /\ proto = "tcp"
    /\ client = "connected"
    /\ stream # "closed"
    /\ nwritten + len <= MaxBytes
    /\ in_buf' = in_buf \o bytes(nwritten, len)
    /\ nwritten' = nwritten + len
    /\ UNCHANGED <<client, client_pos, client_read, peer2_vars>>
    /\ UNCHANGED <<worker_vars, ctl_vars, chan_vars, setup_vars, list>>

RECURSIVE Concat(_)
\* the bytes of a sequence of entries of sent
Concat(es) == IF es = << >> THEN << >> ELSE Head(es).data \o Concat(Tail(es))

\* client.read(..): returns what the server wrote and the client has not yet
\* read; zero bytes (end of stream) when there is nothing and the server has
\* closed; blocks otherwise
ClientRead ==
    /\ proto = "tcp"
    /\ client = "connected"
    /\ client_pos < Len(sent) \/ stream = "closed"
    /\ client_read' = Some(Concat(SubSeq(sent, client_pos + 1, Len(sent))))
    /\ client_pos' = Len(sent)
    /\ UNCHANGED <<client, in_buf, nwritten, peer2_vars>>
    /\ UNCHANGED <<worker_vars, ctl_vars, chan_vars, setup_vars, list>>

\* the client closes (drops) its TcpStream
ClientClose ==
    /\ proto = "tcp"
    /\ client = "connected"
    /\ client' = "closed"
    /\ UNCHANGED <<in_buf, nwritten, client_pos, client_read, peer2_vars>>
    /\ UNCHANGED <<worker_vars, ctl_vars, chan_vars, setup_vars, list>>

\* a second TcpStream::connect(server.socket_address()), after the first: the
\* listener lives as long as the worker thread, so the connection is
\* established and waits in the backlog
Client2Connect ==
    /\ proto = "tcp"
    /\ pc \notin {"none", "done"}
    /\ client # "init"
    /\ client2 = "init"
    /\ client2' = "connected"
    /\ UNCHANGED <<client, in_buf, nwritten, client_pos, client_read, in_buf2>>
    /\ UNCHANGED <<worker_vars, ctl_vars, chan_vars, setup_vars, list>>

\* write_all(..) of len bytes by the second client, on its own connection
Client2Write(len) ==
    /\ proto = "tcp"
    /\ pc # "done"
    /\ client2 = "connected"
    /\ nwritten + len <= MaxBytes
    /\ in_buf2' = in_buf2 \o bytes(nwritten, len)
    /\ nwritten' = nwritten + len
    /\ UNCHANGED <<client, in_buf, client_pos, client_read, client2>>
    /\ UNCHANGED <<worker_vars, ctl_vars, chan_vars, setup_vars, list>>

\* a peer's send_to(.., server.socket_address()) of a datagram of len bytes
PeerSend(peer, len) ==
    /\ proto = "udp"
    /\ pc \notin {"none", "done"}
    /\ nwritten + len <= MaxBytes
    /\ in_buf' = Append(in_buf, [addr |-> peer, data |-> bytes(nwritten, len)])
    /\ nwritten' = nwritten + len
    /\ UNCHANGED <<client, client_pos, client_read, peer2_vars>>
    /\ UNCHANGED <<worker_vars, ctl_vars, chan_vars, setup_vars, list>>

(***************************************************************************)
(* The test thread building a ServerMockerInstructionsList.                 *)
(***************************************************************************)
\* everything but the list and the record of the last call
not_list_vars ==
    <<worker_vars, net_vars, chan_vars, proto, os_ports, ctor, socket_addr, handle,
      popped_msgs, popped_errs, submitted>>

\* let list = ServerMockerInstructionsList::new()
ListNew ==
    /\ list' = list_new
    /\ ret' = Ret("new", "Ok", << >>)
    /\ UNCHANGED not_list_vars

\* let list = ServerMockerInstructionsList::new_with_instructions(slice)
ListNewWithInstructions(slice) ==
    /\ list' = new_with_instructions(slice)
    /\ ret' = Ret("new_with_instructions", "Ok", << slice >>)
    /\ UNCHANGED not_list_vars

\* list.add_<kind>(args)
ListAdd(c) ==
    /\ Len(list) < MaxInstructions
    /\ list' = add(list, c)
    /\ ret' = Ret("add", "Ok", << c >>)
    /\ UNCHANGED not_list_vars

\* let list = list.with_added_<kind>(args)
ListWithAdded(c) ==
    /\ Len(list) < MaxInstructions
    /\ list' = with_added(list, c)
    /\ ret' = Ret("with_added", "Ok", << c >>)
    /\ UNCHANGED not_list_vars

(***************************************************************************)
(* The specifications.                                                     *)
(*                                                                         *)
(* Spec: the constructor, the worker, add_mock_instructions and the peers' *)
(* connect / write / close, with the handle kept for the whole run.  The   *)
(* other specifications add the operations that only observe the worker.   *)
(***************************************************************************)
Next ==
    \/ \E port \in {0} \cup Ports : new_with_opts(port)
    \/ TcpAccept
    \/ TcpAcceptFail
    \/ SetReadTimeout
    \/ SetReadTimeoutFail
    \/ RecvInstructions
    \/ RecvTimeout
    \/ ExecSendMessage
    \/ ExecSendMessageDepending
    \/ ExecStopExchange
    \/ TcpRead
    \/ TcpReadTimeout
    \/ UdpReceive
    \/ UdpReceiveTimeout
    \/ \E batch \in Batches(MaxInstructions - FlatLen(submitted)) :
          add_mock_instructions(batch)
    \/ ClientConnect
    \/ \E len \in 1..MaxBytes : ClientWrite(len)
    \/ ClientClose
    \/ \E peer \in Peers, len \in 1..MaxBytes : PeerSend(peer, len)

Spec == Init /\ [][Next]_vars

\* Spec and the reads of the TCP client
NextClient == Next \/ ClientRead

SpecClient == Init /\ [][NextClient]_vars

\* Spec and the drop of the handle
NextDrop == Next \/ DropHandle

SpecDrop == Init /\ [][NextDrop]_vars

\* the steps of the worker thread that need nothing from outside once they
\* are enabled: the thread is scheduled, and its blocking calls return when
\* what they wait for is there or their timeout elapses
WorkerStep ==
    \/ TcpAccept
    \/ SetReadTimeout
    \/ SetReadTimeoutFail
    \/ RecvInstructions
    \/ RecvTimeout
    \/ ExecSendMessage
    \/ ExecSendMessageDepending
    \/ ExecStopExchange
    \/ TcpRead
    \/ TcpReadTimeout
    \/ UdpReceive
    \/ UdpReceiveTimeout

\* SpecDrop with the worker thread scheduled fairly
SpecDropFair == SpecDrop /\ WF_vars(WorkerStep)

\* Spec and the polls of the error channel
NextErr == Next \/ pop_server_error

SpecErr == Init /\ [][NextErr]_vars

\* Spec and the polls of the message channel
NextMsg == Next \/ pop_received_message

SpecMsg == Init /\ [][NextMsg]_vars

\* Spec and a second TCP client
NextSecond ==
    \/ Next
    \/ Client2Connect
    \/ \E len \in 1..MaxBytes : Client2Write(len)

SpecSecond == Init /\ [][NextSecond]_vars

\* the mock with every method of its handle: the steps of Spec, with
\* MaxObserved instructions submitted in all, and the operations of the
\* handle that only observe
NextCtl ==
    \/ \E port \in {0} \cup Ports : new_with_opts(port)
    \/ WorkerStep
    \/ TcpAcceptFail
    \/ \E batch \in Batches(MaxObserved - FlatLen(submitted)) :
          add_mock_instructions(batch)
    \/ ClientConnect
    \/ \E len \in 1..MaxBytes : ClientWrite(len)
    \/ ClientClose
    \/ \E peer \in Peers, len \in 1..MaxBytes : PeerSend(peer, len)
    \/ pop_received_message
    \/ pop_server_error
    \/ socket_address

SpecCtl == Init /\ [][NextCtl]_vars

\* the runs of Spec in which a TCP mock is given its batches before its
\* client connects (the tests and the crate example submit the script, then
\* connect): add_mock_instructions is called only while no client has
\* connected
NextEarly ==
    \/ \E port \in {0} \cup Ports : new_with_opts(port)
    \/ WorkerStep
    \/ TcpAcceptFail
    \/ \E batch \in Batches(MaxInstructions - FlatLen(submitted)) :
          client = "init" /\ add_mock_instructions(batch)
    \/ ClientConnect
    \/ \E len \in 1..MaxBytes : ClientWrite(len)
    \/ ClientClose
    \/ \E peer \in Peers, len \in 1..MaxBytes : PeerSend(peer, len)

SpecEarly == Init /\ [][NextEarly]_vars

\* the test thread building lists of at most MaxInstructions instructions
NextList ==
    \/ ListNew
    \/ \E slice \in {<< >>} \cup Batches(MaxInstructions) : ListNewWithInstructions(slice)
    \/ \E c \in BuilderKinds : ListAdd(c)
    \/ \E c \in BuilderKinds : ListWithAdded(c)

SpecList == Init /\ [][NextList]_vars

(***************************************************************************)
(* Properties.                                                             *)
(***************************************************************************)
RECURSIVE Flatten(_, _)
\* the instructions of the batches bs, numbered from batch k, each with its
\* batch number and its position in the batch
Flatten(bs, k) ==
    IF bs = << >> THEN << >>
    ELSE [j \in 1..Len(Head(bs)) |-> [k |-> k, j |-> j, ins |-> Head(bs)[j]]]
         \o Flatten(Tail(bs), k + 1)

\* what was executed, without the arguments
Trace == [i \in 1..Len(executed) |->
             [k |-> executed[i].k, j |-> executed[i].j, ins |-> executed[i].ins]]

IsPrefix(s, t) == Len(s) <= Len(t) /\ s = SubSeq(t, 1, Len(s))

\* a StopExchange has been executed
Stopped == \E i \in 1..Len(executed) : executed[i].ins = StopExchange

\* C1: the instructions the worker has executed are, at every moment, an
\* initial part of the submitted instructions taken batch after batch, each
\* batch in its own order: every instruction is executed at most once, batch k
\* entirely before batch k+1, no batch interleaved or replayed.
C1_SubmissionOrder == IsPrefix(Trace, Flatten(submitted, 1))

\* C1 witness: two batches were submitted, three instructions in all, and the
\* worker has executed the three, neighbours being different instructions.
C1_Witness ==
    /\ Len(submitted) = 2
    /\ Len(executed) = 3
    /\ executed[1].ins # executed[2].ins
    /\ executed[2].ins # executed[3].ins

\* C2: a StopExchange is the last instruction the worker ever executes, and
\* the worker has ended: nothing that follows it in its batch, nothing
\* waiting in the channel and nothing submitted later is executed.
C2_NothingAfterStop ==
    \A i \in 1..Len(executed) :
        executed[i].ins = StopExchange => i = Len(executed) /\ pc = "done"

\* C2 witness: StopExchange was executed as the first instruction of a batch
\* of two, with another batch waiting in the channel.
C2_Witness ==
    /\ Stopped
    /\ Len(executed) = 1
    /\ Len(submitted[1]) = 2
    /\ instruction_q # << >>

\* what the mock wrote to the connection and the client has not read yet
Unread == Concat(SubSeq(sent, client_pos + 1, Len(sent)))

\* the step is a read of the client that returned
ClientReads == client_pos' # client_pos \/ client_read' # client_read

\* C3 as stated: in the TCP engine, once StopExchange is executed the
\* connection is closed and any read of the client returns zero bytes.
C3_NextReadIsEof ==
    [][proto = "tcp" /\ Stopped =>
         /\ stream = "closed"
         /\ (ClientReads => client_read' = Some(<< >>))]_vars

\* C3: in the TCP engine, once StopExchange is executed the connection is
\* closed; a read of the client returns what the mock wrote before the
\* StopExchange and the client has not read yet, and zero bytes (end of
\* stream) when there is nothing left.
C3_EofAfterStop ==
    [][proto = "tcp" /\ Stopped =>
         /\ stream = "closed"
         /\ (ClientReads => client_read' = Some(Unread))
         /\ (ClientReads /\ client_pos = Len(sent) => client_read' = Some(<< >>))]_vars

\* C3 witness: after a StopExchange the client has read the bytes the mock had
\* sent, and its last read returned end of stream.
C3_Witness ==
    /\ Stopped
    /\ sent # << >>
    /\ client_pos = Len(sent)
    /\ client_read = Some(<< >>)

\* the only batch submitted is [ReceiveMessage, SendMessage(X)], both were
\* executed, and the connected TCP client has written a message, all of
\* which the ReceiveMessage has read
EchoDone(X) ==
    /\ proto = "tcp"
    /\ submitted = << <<ReceiveMessage, SendMessage(X)>> >>
    /\ Len(executed) = 2
    /\ client = "connected"
    /\ nwritten > 0
    /\ in_buf = << >>

\* C4 as stated: with the batch [ReceiveMessage, SendMessage(X)] and a
\* connected client that writes Y, whatever the length of Y, the message
\* channel holds exactly Y and the client is sent exactly X.
C4_RoundTripEcho ==
    \A X \in Payloads :
        EchoDone(X) =>
            /\ message_q = << bytes(0, nwritten) >>
            /\ Concat(sent) = X

\* C4, the failing case: Y is as long as the read buffer; the worker read it,
\* reported a read failure, forwarded nothing and still sent X.
C4_LostMessage ==
    \E X \in Payloads :
        /\ EchoDone(X)
        /\ nwritten = reader_buffer_size
        /\ message_q = << >>
        /\ error_q = << "UnableToReadTcpStream" >>
        /\ Concat(sent) = X

\* the entries of the message log made by a ReceiveMessageWithMaxSize
SizedReceives ==
    { i \in 1..Len(msg_log) : executed[msg_log[i].at].ins.op = "ReceiveMessageWithMaxSize" }

\* C5: the message a ReceiveMessageWithMaxSize(n) forwards is the first n
\* bytes of the inbound message when that is longer than n, and the inbound
\* message itself otherwise; the message channel holds what was forwarded.
C5_Truncation ==
    /\ \A i \in SizedReceives :
          LET n == executed[msg_log[i].at].ins.n
              inbound == msg_log[i].raw
          IN  IF Len(inbound) > n
              THEN msg_log[i].msg = [b \in 1..n |-> inbound[b]]
              ELSE msg_log[i].msg = inbound
    /\ message_q = [i \in 1..Len(msg_log) |-> msg_log[i].msg]

\* C5 witness: one ReceiveMessageWithMaxSize got a message longer than its
\* size, another one a message that fits and is not empty.
C5_Witness ==
    \E i, j \in SizedReceives :
        /\ Len(msg_log[i].raw) > executed[msg_log[i].at].ins.n
        /\ Len(msg_log[j].raw) <= executed[msg_log[j].at].ins.n
        /\ msg_log[j].raw # << >>

\* the entries of the send log and of the error log made by the i-th
\* executed instruction
SentAt(i) == { j \in 1..Len(sent) : sent[j].at = i }
ErrsAt(i) == { j \in 1..Len(err_log) : err_log[j].at = i }

\* the message most recently forwarded before the i-th executed instruction
LastBefore(i) ==
    LET before == { j \in 1..Len(msg_log) : msg_log[j].at < i }
    IN  IF before = {} THEN None ELSE Some(msg_log[Cardinality(before)].msg)

\* the executed SendMessageDependingOnLastReceivedMessage instructions
Depending ==
    { i \in 1..Len(executed) :
        executed[i].ins.op = "SendMessageDependingOnLastReceivedMessage" }

\* the errors of the socket itself when writing
SocketWriteErrors == {"UnableToWriteTcpStream", "FailedToSendUdpMessage"}

\* the i-th executed instruction sent exactly the bytes m, without an error
SentExactly(i, m) ==
    /\ ErrsAt(i) = {}
    /\ Cardinality(SentAt(i)) = 1
    /\ \A j \in SentAt(i) : sent[j].data = m

\* the i-th executed instruction sent nothing and reported exactly one error,
\* one of errs
FailedWith(i, errs) ==
    /\ SentAt(i) = {}
    /\ Cardinality(ErrsAt(i)) = 1
    /\ \A j \in ErrsAt(i) : err_log[j].err \in errs

\* C6 as stated, failures of the socket write aside: f is called with the
\* most recently received message (None when there is none); nothing is sent
\* or reported when f returns None; otherwise exactly the bytes f returned
\* are sent.
C6_AlwaysSendsWhatFReturns ==
    \A i \in Depending :
        LET r == sent_message_calculator(executed[i].ins.f, executed[i].arg)
        IN  /\ executed[i].arg = LastBefore(i)
            /\ r = None => SentAt(i) = {} /\ ErrsAt(i) = {}
            /\ r # None =>
                  \/ SentExactly(i, r[1])
                  \/ FailedWith(i, SocketWriteErrors)

\* C6: f is called with the most recently received message (None when there
\* is none); nothing is sent or reported when f returns None; when f returns
\* bytes, the UDP engine that has received nothing yet sends nothing and
\* reports GotSendMessageBeforeReceiveMessage, and otherwise exactly the bytes
\* f returned are sent, or the socket write fails, nothing is sent and the
\* write error is reported.
C6_ConditionalResponse ==
    \A i \in Depending :
        LET r == sent_message_calculator(executed[i].ins.f, executed[i].arg)
        IN  /\ executed[i].arg = LastBefore(i)
            /\ r = None => SentAt(i) = {} /\ ErrsAt(i) = {}
            /\ r # None =>
                  IF proto = "udp" /\ executed[i].arg = None
                  THEN FailedWith(i, {"GotSendMessageBeforeReceiveMessage"})
                  ELSE \/ SentExactly(i, r[1])
                       \/ FailedWith(i, SocketWriteErrors)

\* C6 witness: f was called with a received message that is not empty and
\* the bytes it returned, the message itself, were sent; and another f, called
\* with a received message, returned None.
C6_Witness ==
    \E i, j \in Depending :
        /\ executed[i].arg # None
        /\ executed[i].arg # Some(<< >>)
        /\ executed[i].ins.f = "f_reply"
        /\ SentExactly(i, executed[i].arg[1])
        /\ executed[j].ins.f = "f_none"
        /\ executed[j].arg # None

\* the worker went on from the i-th executed instruction to the next one of
\* the batch, when there is one, and did not end on an error
WentOn(i) ==
    /\ exit_reason \notin {"fatal", "panic"}
    /\ executed[i].j < Len(submitted[executed[i].k]) =>
          \/ Len(executed) > i
          \/ i = Len(executed) /\ pc = "exec" /\ ip = executed[i].j + 1

\* the UDP SendMessage instructions executed before anything was received
EarlySends ==
    { i \in 1..Len(executed) :
        /\ proto = "udp"
        /\ executed[i].ins.op = "SendMessage"
        /\ LastBefore(i) = None }

\* C7: a UDP SendMessage executed before any message was received sends no
\* datagram and puts exactly one error on the error channel,
\* GotSendMessageBeforeReceiveMessage, which is not fatal; the worker goes on
\* with the next instruction.
C7_SendBeforeReceive ==
    /\ \A i \in EarlySends :
          /\ FailedWith(i, {"GotSendMessageBeforeReceiveMessage"})
          /\ WentOn(i)
    /\ ~is_fatal("GotSendMessageBeforeReceiveMessage")
    /\ error_q = [j \in 1..Len(err_log) |-> err_log[j].err]

\* C7 witness: the UDP worker executed a SendMessage before any receive, the
\* error is on the error channel, and the next instruction of the batch was
\* executed too.
C7_Witness ==
    /\ 1 \in EarlySends
    /\ error_q # << >>
    /\ error_q[1] = "GotSendMessageBeforeReceiveMessage"
    /\ Len(executed) >= 2
    /\ executed[2].k = 1

\* the UDP SendMessageDependingOnLastReceivedMessage instructions executed
\* while no last-received address was recorded
EarlyDepending == { i \in Depending : proto = "udp" /\ LastBefore(i) = None }

\* C8 as stated: a UDP SendMessageDependingOnLastReceivedMessage executed
\* with no last-received address sends nothing and reports one
\* GotSendMessageBeforeReceiveMessage error, whatever f returns.
C8_ErrorWhateverFReturns ==
    \A i \in EarlyDepending : FailedWith(i, {"GotSendMessageBeforeReceiveMessage"})

\* C8: a UDP SendMessageDependingOnLastReceivedMessage executed with no
\* last-received address sends nothing; it reports one non-fatal
\* GotSendMessageBeforeReceiveMessage error when f returns bytes, and no
\* error at all when f returns None; the worker goes on in both cases.
C8_ErrorOnlyWhenFReturnsBytes ==
    /\ \A i \in EarlyDepending :
          /\ SentAt(i) = {}
          /\ WentOn(i)
          /\ IF sent_message_calculator(executed[i].ins.f, None) # None
             THEN FailedWith(i, {"GotSendMessageBeforeReceiveMessage"})
             ELSE ErrsAt(i) = {}
    /\ ~is_fatal("GotSendMessageBeforeReceiveMessage")

\* C8 witness: with no address recorded, the UDP worker executed one
\* instruction whose f returned bytes, which reported the error, and one whose
\* f returned None, which reported nothing.
C8_Witness ==
    \E i, j \in EarlyDepending :
        /\ executed[i].ins.f = "f_reply"
        /\ ErrsAt(i) # {}
        /\ executed[j].ins.f = "f_none"
        /\ ErrsAt(j) = {}

\* the executed receive instructions
Receives == { i \in 1..Len(executed) : IsReceive(executed[i].ins) }

\* no peer has sent anything, and the TCP client has not closed the connection
SilentClient == nwritten = 0 /\ client # "closed"

ReadFailures == {"UnableToReadTcpStream", "UnableToReadUdpStream"}

C10_BindCollision ==
    /\ ret.op = "new_with_opts" /\ ret.val[1] \in OtherMocks =>
          ctor = "UnableToBindListener"
    /\ ctor = "UnableToBindListener" =>
          /\ is_fatal(ctor)
          /\ handle = "none"
          /\ socket_addr = 0
          /\ pc = "none"
          /\ os_ports = OtherMocks
          /\ instruction_q = << >> /\ message_q = << >> /\ error_q = << >>
          /\ executed = << >> /\ msg_log = << >> /\ err_log = << >>

\* C10 witness: the constructor was called with the port of the other mock
\* and has returned the bind error.
C10_Witness ==
    /\ ret = Ret("new_with_opts", "UnableToBindListener", <<1>>)
    /\ 1 \in OtherMocks
    /\ ctor = "UnableToBindListener"

\* the fatal errors the worker has reported
FatalReports == { j \in 1..Len(err_log) : is_fatal(err_log[j].err) }

\* C11: a fatal error on the error channel is an accept or set-timeout
\* failure reported by the worker of a mock whose constructor returned Ok; it
\* is the only error, the worker has ended and has executed no instruction,
\* forwarded no message and sent nothing; a worker that ended on a setup
\* failure has reported it.
C11_SetupFailure ==
    /\ \A j \in FatalReports :
          /\ err_log[j].err \in {"UnableToAcceptConnection", "UnableToSetReadTimeout"}
          /\ ctor = "Ok"
          /\ error_q = << err_log[j].err >>
          /\ Len(err_log) = 1
          /\ pc = "done"
          /\ exit_reason = "fatal"
          /\ executed = << >> /\ msg_log = << >> /\ sent = << >>
    /\ exit_reason = "fatal" => FatalReports # {}

\* C11 witness: the worker ended on a failure to set the read timeout while a
\* batch was waiting in the instruction channel.
C11_Witness ==
    /\ error_q = << "UnableToSetReadTimeout" >>
    /\ pc = "done"
    /\ instruction_q # << >>

\* the errors the worker has reported that are not fatal
NonFatalReports == { j \in 1..Len(err_log) : ~is_fatal(err_log[j].err) }

\* after the i-th executed instruction the worker carried on: with the next
\* instruction of the batch when there is one, and otherwise with the wait
\* for the next batch, which it left with that batch or with the queue empty
CarriedOn(i) ==
    \/ Len(executed) > i
    \/ /\ executed[i].j < Len(submitted[executed[i].k])
       /\ pc = "exec" /\ ip = executed[i].j + 1
    \/ /\ executed[i].j = Len(submitted[executed[i].k])
       /\ \/ pc = "await"
          \/ pc = "exec" /\ n_recv = executed[i].k + 1 /\ ip = 1
          \/ /\ pc = "done"
             /\ exit_reason \in {"starved", "disconnected"}
             /\ instruction_q = << >>

\* C12: every error that is not fatal was reported by an instruction after
\* which the worker carried on with the next instruction of the batch or the
\* wait for the next batch; the errors of the worker that are not fatal are
\* the read, write and send failures and the UDP send-before-receive.
C12_NonFatalGoesOn ==
    \A j \in NonFatalReports :
        /\ err_log[j].err \in {"UnableToReadTcpStream", "UnableToWriteTcpStream",
                               "UnableToReadUdpStream", "FailedToSendUdpMessage",
                               "GotSendMessageBeforeReceiveMessage"}
        /\ err_log[j].at \in 1..Len(executed)
        /\ CarriedOn(err_log[j].at)

\* C12 witness: the first instruction reported a read failure, the rest of its
\* batch and an instruction of the next batch were executed after it.
C12_Witness ==
    /\ 1 \in NonFatalReports
    /\ err_log[1].at = 1
    /\ err_log[1].err \in ReadFailures
    /\ Len(executed) = 3
    /\ executed[2].k = 1
    /\ executed[3].k = 2

\* the entries of the message log made by the i-th executed instruction
MsgsAt(i) == { j \in 1..Len(msg_log) : msg_log[j].at = i }

\* the TCP read failures the worker has reported
TcpReadFailures ==
    { j \in 1..Len(err_log) : err_log[j].err = "UnableToReadTcpStream" }

\* C13: in the TCP engine a receive that failed to read forwarded no
\* message, and the last-received message is at every moment the last message
\* forwarded, so a failed read leaves it as it was; every
\* SendMessageDependingOnLastReceivedMessage was called with the last message
\* forwarded before it, failed reads in between or not.
C13_FailedReadKeepsLast ==
    proto = "tcp" =>
        /\ \A j \in TcpReadFailures :
              /\ IsReceive(executed[err_log[j].at].ins)
              /\ MsgsAt(err_log[j].at) = {}
        /\ last_received = LastBefore(Len(executed) + 1)
        /\ \A i \in Depending : executed[i].arg = LastBefore(i)

\* C13 witness: a receive forwarded a message, the next receive failed to
\* read, and the SendMessageDependingOnLastReceivedMessage after it was called
\* with the message of the first.
C13_Witness ==
    /\ Len(executed) = 3
    /\ MsgsAt(1) # {}
    /\ msg_log[1].msg # << >>
    /\ \E j \in TcpReadFailures : err_log[j].at = 2
    /\ 3 \in Depending
    /\ executed[3].arg = Some(msg_log[1].msg)
    /\ last_received = Some(msg_log[1].msg)

\* the errors the worker has reported, in the order it reported them
Reported == [j \in 1..Len(err_log) |-> err_log[j].err]

Forwarded == [j \in 1..Len(msg_log) |-> msg_log[j].msg]

\* the step is a pop_received_message that returned
MessagePolled ==
    \/ popped_msgs' # popped_msgs
    \/ ret' # ret /\ ret'.op = "pop_received_message"

Submits ==
    /\ ret'.op = "add_mock_instructions"
    /\ ret' # ret \/ submitted' # submitted

\* what add_mock_instructions may not touch
BesidesInstructions ==
    <<worker_vars, net_vars, setup_vars, message_q, error_q, socket_addr, handle,
      popped_msgs, popped_errs>>

\* C16: add_mock_instructions returns Err exactly when the worker has ended;
\* the error is UnableToSendInstructions, which is not fatal, and nothing
\* changes; while the worker has not ended, in accept or in a batch or
\* waiting, it returns Ok and the batch is appended at the tail of the
\* instruction channel, nothing else changing.
C16_SubmitFailsOnlyAfterEnd ==
    [][Submits =>
         /\ ~is_fatal("UnableToSendInstructions")
         /\ UNCHANGED BesidesInstructions
         /\ IF pc = "done"
            THEN /\ ret' = Ret("add_mock_instructions", "Err",
                               <<"UnableToSendInstructions">>)
                 /\ UNCHANGED <<instruction_q, submitted>>
            ELSE /\ ret' = Ret("add_mock_instructions", "Ok", << >>)
                 /\ Len(instruction_q') = Len(instruction_q) + 1
                 /\ SubSeq(instruction_q', 1, Len(instruction_q)) = instruction_q
                 /\ instruction_q'[Len(instruction_q')] \in Batches(MaxInstructions)
                 /\ submitted' = Append(submitted, instruction_q'[Len(instruction_q')])]_vars

\* C16 witness: a batch was accepted while the worker was executing another,
\* and a submission after the worker had ended returned the error.
C16_Witness ==
    /\ Len(submitted) = 2
    /\ executed # << >>
    /\ executed[Len(executed)].k = 1
    /\ pc = "done"
    /\ ret = Ret("add_mock_instructions", "Err", <<"UnableToSendInstructions">>)

\* the step is the end of the worker by starvation
Starves == exit_reason # "starved" /\ exit_reason' = "starved"

\* C17: the worker ends by starvation only from the wait for a batch, with
\* the instruction channel empty and no StopExchange executed, and the step
\* puts nothing on the error channel or the message channel and sends nothing.
C17_SilentStarvation ==
    [][Starves =>
         /\ pc = "await" /\ pc' = "done"
         /\ instruction_q = << >>
         /\ ~Stopped
         /\ UNCHANGED <<error_q, err_log, message_q, msg_log, sent, executed>>]_vars

\* C17 witness: a script of one SendMessage and no StopExchange was executed,
\* the worker ended by starvation and both channels are empty.
C17_Witness ==
    /\ exit_reason = "starved"
    /\ Len(executed) = 1
    /\ executed[1].ins.op = "SendMessage"
    /\ sent # << >>
    /\ error_q = << >>
    /\ message_q = << >>

\* the worker ended by a failure of its setup, reported or not
SetupFailed == exit_reason \in {"fatal", "panic"} /\ executed = << >> /\ n_recv = 0

\* C18 as stated, the end of the wait for a batch counted as starvation
\* whether the timeout elapsed or the channel was disconnected: a worker that
\* has ended executed a StopExchange, or ended its wait for a batch, or failed
\* in its setup.
C18_ThreeWaysToStop ==
    pc = "done" =>
        \/ Stopped /\ exit_reason = "stop"
        \/ exit_reason \in {"starved", "disconnected"}
        \/ SetupFailed

\* C18, the failing case: the worker ended in the middle of a batch, with no
\* StopExchange executed and instructions of the batch left, on the panic of
\* the unwrap of a channel send after the handle was dropped.
C18_EndedByPanic ==
    /\ pc = "done"
    /\ exit_reason = "panic"
    /\ handle = "dropped"
    /\ ~Stopped
    /\ executed # << >>
    /\ Len(executed) < FlatLen(submitted)

\* C19 as stated: whenever the handle is dropped the worker eventually ends.
C19_DropNeverHangs == (handle = "dropped") ~> (pc = "done")

\* C19, the failing case: the handle of a TCP mock was dropped while the
\* worker was in accept and no client has connected; no step of the worker is
\* enabled.
C19_HungInAccept ==
    /\ proto = "tcp"
    /\ handle = "dropped"
    /\ pc = "accept"
    /\ client = "init"
    /\ ~ENABLED WorkerStep

\* C20 as stated: once the TCP client has closed the connection the worker
\* executes no further instruction.
C20_StopsWhenClientCloses ==
    [][proto = "tcp" /\ client = "closed" => executed' = executed]_vars

\* C20, the failing case: after the client closed, a receive read zero bytes
\* and forwarded an empty message, and the worker executed the instruction
\* after it and is still running.
C20_RunsAfterClose ==
    /\ proto = "tcp"
    /\ client = "closed"
    /\ \E j \in 1..Len(msg_log) :
          /\ msg_log[j].raw = << >>
          /\ Len(executed) > msg_log[j].at
    /\ pc # "done"

\* the peer whose datagram was the last one received before the i-th executed
\* instruction (None when nothing was received before it)
LastSenderBefore(i) ==
    LET before == { j \in 1..Len(msg_log) : msg_log[j].at < i }
    IN  IF before = {} THEN None ELSE Some(msg_log[Cardinality(before)].from)

\* C21: every datagram the UDP worker has sent went to the peer whose
\* datagram was the last one received before the send, and the address the
\* worker holds is that of the last datagram received: after a datagram from
\* A and then one from B the sends go to B.
C21_RepliesToLastSender ==
    proto = "udp" =>
        /\ \A j \in 1..Len(sent) : Some(sent[j].to) = LastSenderBefore(sent[j].at)
        /\ last_received # None =>
              Some(last_received[1].addr) = LastSenderBefore(Len(executed) + 1)

\* C21 witness: a datagram of A was received, then one of B, and the send
\* after them went to B.
C21_Witness ==
    /\ proto = "udp"
    /\ Len(msg_log) = 2
    /\ msg_log[1].from = "A"
    /\ msg_log[2].from = "B"
    /\ Len(sent) = 1
    /\ sent[1].at = 3
    /\ sent[1].to = "B"

\* the bytes of a sequence
Range(v) == { v[i] : i \in 1..Len(v) }

\* C22: the accept of a TCP mock returns once, when the worker leaves it, and
\* never again; every send goes to the client it accepted and every message
\* forwarded or held was read from that client's connection: no byte the
\* second client wrote is ever read.
C22_OneClientOnly ==
    proto = "tcp" =>
        /\ n_accept = (IF pc \in {"none", "accept"} THEN 0 ELSE 1)
        /\ \A j \in 1..Len(sent) : sent[j].to = TcpPeer
        /\ \A j \in 1..Len(msg_log) :
              /\ msg_log[j].from = TcpPeer
              /\ Range(msg_log[j].raw) \cap Range(in_buf2) = {}
        /\ Range(whole_received_packet) \cap Range(in_buf2) = {}
        /\ client2 = "init" => in_buf2 = << >>

\* C22 witness: a second client connected and wrote; the worker received the
\* bytes of the first client, sent its answer and went back to the wait for a
\* batch, the bytes of the second client still unread.
C22_Witness ==
    /\ proto = "tcp"
    /\ client2 = "connected"
    /\ in_buf2 # << >>
    /\ n_accept = 1
    /\ Len(msg_log) = 1
    /\ msg_log[1].raw # << >>
    /\ Len(sent) = 1
    /\ sent[1].at > msg_log[1].at
    /\ pc = "await"

\* the step changes the last-received state
LastReceivedChanges == last_received' # last_received

\* the step is a receive instruction whose read succeeded: it forwards one
\* message, the one the instruction made of what it read
ReceiveSucceeds ==
    /\ pc \in {"exec", "read"}
    /\ IsReceive(Current)
    /\ Len(msg_log') = Len(msg_log) + 1
    /\ msg_log'[Len(msg_log')].msg = Received(Current, msg_log'[Len(msg_log')].raw)

\* C23: a step that changes the last-received state is a ReceiveMessage or
\* ReceiveMessageWithMaxSize whose read succeeded, and the new state is the
\* message it forwarded (for UDP with the address of its sender); no other
\* step of the worker, no submission and no poll changes it.
C23_OnlyReceivesChangeLast ==
    [][LastReceivedChanges =>
         /\ ReceiveSucceeds
         /\ last_received' =
               LET m == msg_log'[Len(msg_log')]
               IN  IF proto = "tcp" THEN Some(m.msg)
                   ELSE Some([addr |-> m.from, msg |-> m.msg])]_vars

\* C23 witness: a receive forwarded a message that is not empty, a SendMessage
\* in a second batch followed, the message was polled, a poll of the errors
\* returned None, and the last-received state is still that message.
C23_Witness ==
    /\ Len(executed) = 2
    /\ Len(submitted) = 2
    /\ MsgsAt(1) # {}
    /\ msg_log[1].msg # << >>
    /\ executed[2].ins.op = "SendMessage"
    /\ sent # << >>
    /\ popped_msgs # << >>
    /\ ret = Ret("pop_server_error", "None", << >>)
    /\ LastMessage = Some(msg_log[1].msg)

\* the errors raised so far: by the constructor, by a submission, and by the
\* worker on the error channel
Raised ==
    (IF ctor \in ServerMockerError THEN {ctor} ELSE {})
    \cup (IF ret.res = "Err" THEN {ret.val[1]} ELSE {})
    \cup { err_log[j].err : j \in 1..Len(err_log) }

\* C24: is_fatal is true exactly for the bind, local-address, accept and
\* set-read-timeout failures and false for the submission failure, the read
\* failures, the write and send failures and the send before receive; the
\* rendered message starts with "Fatal" exactly when is_fatal is true and with
\* "Non fatal" otherwise; every error the mock raises is one of these.
C24_Fatality ==
    /\ Raised \subseteq ServerMockerError
    /\ \A e \in ServerMockerError :
          /\ is_fatal(e) <=>
                e \in {"UnableToBindListener", "UnableToGetLocalAddress",
                       "UnableToAcceptConnection", "UnableToSetReadTimeout"}
          /\ ~is_fatal(e) <=>
                e \in {"UnableToSendInstructions", "UnableToReadTcpStream",
                       "UnableToReadUdpStream", "UnableToWriteTcpStream",
                       "FailedToSendUdpMessage", "GotSendMessageBeforeReceiveMessage"}
          /\ to_string(e)[1] = "Fatal" <=> is_fatal(e)
          /\ to_string(e)[1] = "Non fatal" <=> ~is_fatal(e)

\* C24 witness: the worker reported a failure to set the read timeout, whose
\* message starts with "Fatal", and the submission after its end returned an
\* error whose message starts with "Non fatal".
C24_Witness ==
    /\ err_log # << >>
    /\ to_string(err_log[1].err) =
          << "Fatal", ": ", "Failed to set read timeout on TCP stream" >>
    /\ ret.res = "Err"
    /\ to_string(ret.val[1])[1] = "Non fatal"

\* the step is a pop_server_error that returned
ErrorPolled ==
    \/ popped_errs' # popped_errs
    \/ ret' # ret /\ ret'.op = "pop_server_error"

\* C25: as long as the handle is there, pop_received_message and
\* pop_server_error can return, wherever the worker is (in accept, in a batch,
\* waiting, ended); a call that returns gives the oldest item of its channel
\* when there is one and None when the channel is empty.
C25_PollsAlwaysReturn ==
    /\ [](handle = "alive" =>
             /\ ENABLED pop_received_message
             /\ ENABLED pop_server_error)
    /\ [][MessagePolled =>
            ret' = IF message_q = << >>
                   THEN Ret("pop_received_message", "None", << >>)
                   ELSE Ret("pop_received_message", "Some", Head(message_q))]_vars
    /\ [][ErrorPolled =>
            ret' = IF error_q = << >>
                   THEN Ret("pop_server_error", "None", << >>)
                   ELSE Ret("pop_server_error", "Some", << Head(error_q) >>)]_vars

\* C25 witness: the TCP worker is blocked in accept, no client has connected,
\* a batch is waiting, and a poll of the messages has returned None.
C25_Witness ==
    /\ proto = "tcp"
    /\ pc = "accept"
    /\ client = "init"
    /\ instruction_q # << >>
    /\ ret = Ret("pop_received_message", "None", << >>)

\* the step is the return of a method of the handle
HandleCall ==
    /\ ret'.op \in {"add_mock_instructions", "pop_received_message",
                    "pop_server_error", "socket_address"}
    /\ \/ ret' # ret
       \/ submitted' # submitted
       \/ popped_msgs' # popped_msgs
       \/ popped_errs' # popped_errs

\* what belongs to the worker thread, the network and the OS: the socket, the
\* last-received state, the logs of what was executed and sent
NotTheHandles == <<worker_vars, net_vars, setup_vars, list>>

\* C26: a method of the handle changes nothing of the worker, the socket, the
\* last-received state or the bound address; add_mock_instructions changes at
\* most the instruction channel, pop_received_message the message channel,
\* pop_server_error the error channel, and socket_address nothing: it returns
\* the address the constructor bound, which stays the same as long as the
\* handle lives.
C26_PureMessagePassing ==
    /\ [][HandleCall =>
            /\ UNCHANGED NotTheHandles
            /\ UNCHANGED <<socket_addr, handle>>
            /\ ret'.op = "add_mock_instructions" =>
                  UNCHANGED <<message_q, error_q, popped_msgs, popped_errs>>
            /\ ret'.op = "pop_received_message" =>
                  UNCHANGED <<instruction_q, error_q, submitted, popped_errs>>
            /\ ret'.op = "pop_server_error" =>
                  UNCHANGED <<instruction_q, message_q, submitted, popped_msgs>>
            /\ ret'.op = "socket_address" =>
                  /\ UNCHANGED <<chan_vars, submitted, popped_msgs, popped_errs>>
                  /\ ret' = Ret("socket_address", "Some", << socket_addr >>)]_vars
    /\ [][handle = "alive" => socket_addr' = socket_addr]_vars
    /\ [](handle = "alive" => socket_addr \in os_ports \ OtherMocks)

\* C26 witness: two batches were submitted, a message and an error were
\* polled, the worker has ended, and socket_address has returned the bound
\* address.
C26_Witness ==
    /\ Len(submitted) = 2
    /\ popped_msgs # << >>
    /\ popped_errs # << >>
    /\ pc = "done"
    /\ socket_addr # 0
    /\ ret = Ret("socket_address", "Some", << socket_addr >>)

\* C27: while the TCP worker is in accept every batch submitted is kept in
\* the channel, in order, and the worker does not end by starvation there;
\* once the client has connected the batches submitted before are executed in
\* their order, and the worker does not end before it has executed them all,
\* except by a StopExchange among them or by the failure of its setup.
C27_EarlyBatchesKept ==
    proto = "tcp" =>
        /\ pc = "accept" =>
              /\ instruction_q = submitted
              /\ executed = << >>
              /\ exit_reason = "none"
        /\ IsPrefix(Trace, Flatten(submitted, 1))
        /\ pc = "done" /\ Trace # Flatten(submitted, 1) =>
              \/ Stopped /\ exit_reason = "stop"
              \/ exit_reason = "fatal" /\ executed = << >>

\* C27 witness: two batches, three instructions in all, were submitted to a
\* TCP mock before its client connected; the client has connected and the
\* worker has executed the three in order, then ended by starvation.
C27_Witness ==
    /\ proto = "tcp"
    /\ client # "init"
    /\ Len(submitted) = 2
    /\ FlatLen(submitted) = 3
    /\ Trace = Flatten(submitted, 1)
    /\ exit_reason = "starved"

\* the instruction a call of the builder is to add
Built(c) ==
    CASE c.kind = "send_message" -> SendMessage(c.arg[1])
      [] c.kind = "send_message_depending_on_last_received_message" ->
             SendMessageDependingOnLastReceivedMessage(c.arg[1])
      [] c.kind = "receive_message" -> ReceiveMessage
      [] c.kind = "receive_message_with_max_size" -> ReceiveMessageWithMaxSize(c.arg[1])
      [] c.kind = "stop_exchange" -> StopExchange

\* the step is a call of the builder
BuilderCall ==
    /\ ret'.op \in {"new", "new_with_instructions", "add", "with_added"}
    /\ ret' # ret \/ list' # list

\* C28: new() gives the empty list; new_with_instructions(s) gives a list
\* that holds the instructions of s, as many and in the same order; add_X and
\* with_added_X make the list one longer, leave the instructions it had where
\* they were and put X, with the argument given, at the end; and on every
\* list with_added_X gives what add_X leaves, for each of the five kinds.
C28_ListBuilder ==
    /\ [][BuilderCall =>
            /\ ret'.op = "new" => list' = << >>
            /\ ret'.op = "new_with_instructions" =>
                  /\ Len(list') = Len(ret'.val[1])
                  /\ \A i \in 1..Len(list') : list'[i] = ret'.val[1][i]
            /\ ret'.op \in {"add", "with_added"} =>
                  /\ Len(list') = Len(list) + 1
                  /\ \A i \in 1..Len(list) : list'[i] = list[i]
                  /\ list'[Len(list')] = Built(ret'.val[1])]_vars
    /\ [](\A c \in BuilderKinds : with_added(list, c) = add(list, c))
    /\ [](\A c \in BuilderKinds : Built(c) \in Instruction)

\* C28 witness: a list of two different instructions got a third one,
\* StopExchange, at its end by with_added_stop_exchange.
C28_Witness ==
    /\ Len(list) = 3
    /\ list[1] # list[2]
    /\ list[2] # list[3]
    /\ list[3] = StopExchange
    /\ ret = Ret("with_added", "Ok", << [kind |-> "stop_exchange", arg |-> << >>] >>)

\* the step is the return of a read of read_packet
ReadReturns ==
    /\ proto = "tcp"
    /\ pc \in {"exec", "read"}
    /\ IsReceive(Current)
    /\ \/ whole_received_packet' # whole_received_packet
       \/ msg_log' # msg_log
       \/ err_log' # err_log

\* the bytes the read of the step took from the connection
BytesRead == SubSeq(in_buf, 1, Len(in_buf) - Len(in_buf'))

\* C29: each read of the TCP read_packet takes at most reader_buffer_size
\* bytes, the first ones waiting on the connection.  A read that fills the
\* buffer appends them to what was accumulated and is followed by another
\* read, nothing being forwarded yet; the first read that returns fewer ends
\* the packet, which is everything read, in order: it is forwarded (cut to its
\* size by ReceiveMessageWithMaxSize) and the accumulator is empty again.  A
\* read that fails, also after full reads, reports UnableToReadTcpStream,
\* forwards nothing and drops what was accumulated.
C29_ReadPacket ==
    /\ [][ReadReturns =>
            /\ in_buf' = SubSeq(in_buf, Len(BytesRead) + 1, Len(in_buf))
            /\ \/ /\ Len(BytesRead) = reader_buffer_size
                  /\ whole_received_packet' = whole_received_packet \o BytesRead
                  /\ pc' = "read"
                  /\ UNCHANGED <<msg_log, message_q, err_log, error_q, last_received>>
               \/ /\ Len(BytesRead) < reader_buffer_size
                  /\ Len(BytesRead) = Len(in_buf)
                  /\ Len(msg_log') = Len(msg_log) + 1
                  /\ msg_log'[Len(msg_log')].raw = whole_received_packet \o BytesRead
                  /\ message_q' =
                        Append(message_q,
                               Received(Current, whole_received_packet \o BytesRead))
                  /\ whole_received_packet' = << >>
                  /\ UNCHANGED <<err_log, error_q>>
               \/ /\ BytesRead = << >>
                  /\ Len(err_log') = Len(err_log) + 1
                  /\ err_log'[Len(err_log')].err = "UnableToReadTcpStream"
                  /\ error_q' = Append(error_q, "UnableToReadTcpStream")
                  /\ whole_received_packet' = << >>
                  /\ UNCHANGED <<msg_log, message_q, last_received>>]_vars
    /\ [](proto = "tcp" =>
             IF pc = "read"
             THEN /\ whole_received_packet # << >>
                  /\ Len(whole_received_packet) % reader_buffer_size = 0
             ELSE whole_received_packet = << >>)

\* C29 witness: the first receive read a full buffer, then its next read
\* failed and the two bytes were dropped; the second receive read the third
\* byte in a short read and forwarded it alone.
C29_Witness ==
    /\ proto = "tcp"
    /\ Len(executed) = 2
    /\ nwritten = 3
    /\ in_buf = << >>
    /\ Len(err_log) = 1
    /\ err_log[1] = [at |-> 1, err |-> "UnableToReadTcpStream"]
    /\ Len(msg_log) = 1
    /\ msg_log[1].at = 2
    /\ msg_log[1].raw = << 3 >>
    /\ message_q = << << 3 >> >>

\* the step is the return of the worker's recv_timeout
WaitEnds == pc = "await" /\ pc' # "await"

SocketBuffers == 3

\* the bytes the send arm at which the worker is hands to write_all (None when
\* the worker is not at a send arm, or the closure returns None)
ToWrite ==
    IF pc # "exec" THEN None
    ELSE IF Current.op = "SendMessage" THEN Some(Current.msg)
    ELSE IF Current.op = "SendMessageDependingOnLastReceivedMessage"
         THEN sent_message_calculator(Current.f, LastMessage)
    ELSE None

\* write_all does not return: the buffers have no room for the bytes and the
\* client, still connected, is not reading
WriteBlocked ==
    /\ proto = "tcp"
    /\ client = "connected"
    /\ ToWrite # None
    /\ Len(Unread) + Len(ToWrite[1]) > SocketBuffers

\* a step of the worker thread whose blocking call returns
WorkerRuns == ~WriteBlocked /\ WorkerStep

\* the mock and a TCP client that may read, with the buffers of the
\* connection: the handle is kept for the whole run
NextBuffered ==
    \/ \E port \in {0} \cup Ports : new_with_opts(port)
    \/ WorkerRuns
    \/ TcpAcceptFail
    \/ \E batch \in Batches(MaxInstructions - FlatLen(submitted)) :
          add_mock_instructions(batch)
    \/ ClientConnect
    \/ \E len \in 1..MaxBytes : ClientWrite(len)
    \/ ClientRead
    \/ ClientClose
    \/ \E peer \in Peers, len \in 1..MaxBytes : PeerSend(peer, len)

\* the worker thread is scheduled, and each of its blocking calls returns
\* when what it waits for is there or its timeout elapses; nothing obliges
\* the client to connect, to read or to close
SpecBuffered == Init /\ [][NextBuffered]_vars /\ WF_vars(WorkerRuns)

\* C31 as stated: with the handle kept, finitely many batches and finitely
\* many bytes from the peers, the UDP worker eventually ends, and the TCP
\* worker eventually ends once a client has connected.
C31_SelfTerminating ==
    (ctor = "Ok" /\ (proto = "udp" \/ client # "init")) ~> (pc = "done")

\* C31, the failing case: the client of a TCP mock is connected and does not
\* read; the worker is at a send whose bytes do not fit in the buffers of the
\* connection, and no step of the worker is enabled.
C31_BlockedInWrite ==
    /\ proto = "tcp"
    /\ handle = "alive"
    /\ client = "connected"
    /\ pc = "exec"
    /\ WriteBlocked
    /\ ~ENABLED WorkerRuns

\* the executed SendMessage instructions of the TCP worker before which
\* nothing was received
TcpEarlySends ==
    { i \in 1..Len(executed) :
        /\ proto = "tcp"
        /\ executed[i].ins.op = "SendMessage"
        /\ LastBefore(i) = None }

\* the executed SendMessageDependingOnLastReceivedMessage instructions of the
\* TCP worker before which nothing was received
TcpEarlyDepending == { i \in Depending : proto = "tcp" /\ LastBefore(i) = None }

\* the i-th executed instruction wrote exactly the bytes m and reported
\* nothing, or, the client having closed the connection, the write failed
Wrote(i, m) ==
    \/ SentExactly(i, m)
    \/ client = "closed" /\ FailedWith(i, {"UnableToWriteTcpStream"})

\* C32: the TCP worker never reports GotSendMessageBeforeReceiveMessage.  A
\* SendMessage executed before any receive, as the first instruction or
\* later, writes exactly its bytes and reports no error (a write to a client
\* that has closed the connection may fail, as any write); a
\* SendMessageDependingOnLastReceivedMessage executed before any receive
\* calls its function with None, and writes what it returns, if anything.
C32_TcpSendNeedsNoReceive ==
    proto = "tcp" =>
        /\ \A j \in 1..Len(err_log) :
              err_log[j].err # "GotSendMessageBeforeReceiveMessage"
        /\ \A i \in TcpEarlySends : Wrote(i, executed[i].ins.msg)
        /\ \A i \in TcpEarlyDepending :
              LET r == sent_message_calculator(executed[i].ins.f, None)
              IN  /\ executed[i].arg = None
                  /\ IF r = None THEN SentAt(i) = {} /\ ErrsAt(i) = {}
                     ELSE Wrote(i, r[1])
        /\ client # "closed" =>
              \A i \in TcpEarlySends \cup TcpEarlyDepending : ErrsAt(i) = {}

\* C32 witness: the first instruction of the TCP worker was a SendMessage,
\* whose bytes were written; the second called its function with None and
\* wrote what it returned for None; nothing was received and no error
\* reported.
C32_Witness ==
    /\ proto = "tcp"
    /\ Len(executed) = 2
    /\ 1 \in TcpEarlySends
    /\ SentExactly(1, executed[1].ins.msg)
    /\ 2 \in TcpEarlyDepending
    /\ executed[2].ins.f = "f_reply"
    /\ executed[2].arg = None
    /\ SentExactly(2, NothingYet)
    /\ msg_log = << >>
    /\ err_log = << >>

\* the executed receive instructions whose arm has not finished: the TCP
\* read_packet is between two reads, or the thread unwound in the arm (the
\* unwrap of a send on a channel whose receiver, the handle, was dropped)
Unfinished ==
    { i \in Receives :
        /\ i = Len(executed)
        /\ pc = "read" \/ exit_reason = "panic" }

\* the receive instructions completed
Completed == Receives \ Unfinished

\* the read failures the worker has reported
ReadErrors == { j \in 1..Len(err_log) : err_log[j].err \in ReadFailures }

\* C33: every receive instruction that completed put exactly one item on a
\* channel, a message on the message channel or a read failure on the error
\* channel, never both and never neither, and one that has not completed has
\* put nothing yet; only receive instructions put messages or read failures;
\* so the number of messages produced plus the number of read failures
\* produced is the number of receive instructions completed.
C33_OneOutputPerReceive ==
    /\ \A i \in Completed :
          /\ Cardinality(MsgsAt(i)) + Cardinality(ErrsAt(i)) = 1
          /\ \A j \in ErrsAt(i) : err_log[j].err \in ReadFailures
    /\ \A i \in Unfinished : MsgsAt(i) = {} /\ ErrsAt(i) = {}
    /\ \A j \in 1..Len(msg_log) : msg_log[j].at \in Receives
    /\ \A j \in ReadErrors : err_log[j].at \in Receives
    /\ Len(msg_log) + Cardinality(ReadErrors) = Cardinality(Completed)

\* C33 witness: three receive instructions completed, two of them put a
\* message on the message channel and one a read failure on the error
\* channel.
C33_Witness ==
    /\ Cardinality(Completed) = 3
    /\ Len(msg_log) = 2
    /\ Cardinality(ReadErrors) = 1
    /\ Len(message_q) = 2
    /\ Len(error_q) = 1

\* the last entry of the message log (only used when there is one)
LastForwarded == msg_log[Len(msg_log)]

\* C34: the message of the worker's last-received state is the last message
\* the worker put on the message channel, which is what its instruction made
\* of the packet read (the first n bytes for ReceiveMessageWithMaxSize(n)),
\* and for UDP its address is the sender of that message; the state is None
\* exactly when the worker has put no message on the channel.  The thread
\* that unwound on a send to a dropped handle has no state left.
C34_LastIsLastForwarded ==
    exit_reason # "panic" =>
        /\ last_received = None <=> msg_log = << >>
        /\ msg_log # << >> =>
              /\ LastMessage = Some(LastForwarded.msg)
              /\ LastForwarded.msg =
                    Received(executed[LastForwarded.at].ins, LastForwarded.raw)
              /\ proto = "udp" => last_received[1].addr = LastForwarded.from

\* C34 witness: two different messages were put on the message channel, the
\* second one cut by a ReceiveMessageWithMaxSize; another instruction was
\* executed after it, and the last-received message is the second, as cut.
C34_Witness ==
    /\ Len(msg_log) = 2
    /\ msg_log[1].msg # msg_log[2].msg
    /\ msg_log[2].raw # msg_log[2].msg
    /\ Len(executed) > msg_log[2].at
    /\ LastMessage = Some(msg_log[2].msg)

\* the step is the return of a read of read_packet on a connection the client
\* has closed
ReadsClosed == ReadReturns /\ client = "closed"

UdpReceiveFails ==
    /\ proto = "udp"
    /\ Len(err_log') = Len(err_log) + 1
    /\ err_log'[Len(err_log')].err = "UnableToReadUdpStream"

\* the executed UDP receive instructions that failed
FailedUdpReceives ==
    { i \in Receives : \E j \in ErrsAt(i) : err_log[j].err = "UnableToReadUdpStream" }

\* the executed send instructions of the UDP worker that follow a failed
\* receive
SendsAfterFailure ==
    { i \in 1..Len(executed) :
        /\ proto = "udp"
        /\ ~IsReceive(executed[i].ins) /\ executed[i].ins # StopExchange
        /\ \E f \in FailedUdpReceives : f < i }

\* the bytes the i-th executed instruction, a send, has to send (None when
\* its closure returns None)
ToSend(i) ==
    IF executed[i].ins.op = "SendMessage" THEN Some(executed[i].ins.msg)
    ELSE sent_message_calculator(executed[i].ins.f, executed[i].arg)

\* C36: a UDP receive that fails changes nothing of the last-received state,
\* payload or address.  So a send executed after a failed receive behaves as
\* if the failure had not happened: its closure gets the payload of the last
\* successful receive (None if there was none); when there was none it sends
\* nothing and reports GotSendMessageBeforeReceiveMessage; otherwise what it
\* sends goes to the sender of the last successful receive.
C36_FailedUdpReceiveKeepsLast ==
    /\ [][UdpReceiveFails =>
            /\ last_received' = last_received
            /\ UNCHANGED <<msg_log, message_q, sent>>]_vars
    /\ [](\A i \in SendsAfterFailure :
             /\ executed[i].ins.op = "SendMessageDependingOnLastReceivedMessage" =>
                   executed[i].arg = LastBefore(i)
             /\ \A j \in SentAt(i) : Some(sent[j].to) = LastSenderBefore(i)
             /\ ToSend(i) # None =>
                   IF LastBefore(i) = None
                   THEN FailedWith(i, {"GotSendMessageBeforeReceiveMessage"})
                   ELSE \/ SentExactly(i, ToSend(i)[1])
                        \/ FailedWith(i, {"FailedToSendUdpMessage"}))

\* C36 witness: a datagram of B was received, the next receive failed, and
\* the SendMessage after it sent its bytes to B; the last-received state is
\* still the datagram of B.
C36_Witness ==
    /\ proto = "udp"
    /\ Len(executed) = 3
    /\ Len(msg_log) = 1
    /\ msg_log[1].at = 1
    /\ msg_log[1].from = "B"
    /\ 2 \in FailedUdpReceives
    /\ 3 \in SendsAfterFailure
    /\ executed[3].ins.op = "SendMessage"
    /\ SentExactly(3, executed[3].ins.msg)
    /\ sent[1].to = "B"
    /\ last_received = Some([addr |-> "B", msg |-> msg_log[1].msg])

\* the bytes of the j-th forwarded message that its instruction cut off
CutOff(j) == Range(drain(msg_log[j].raw, Len(msg_log[j].msg)))

\* the bytes that wait on the socket: the unread bytes of the TCP connection,
\* the bytes of the datagrams not yet received
Waiting ==
    IF proto = "tcp" THEN Range(in_buf)
    ELSE UNION { Range(in_buf[d].data) : d \in 1..Len(in_buf) }

\* the step is a TCP receive that forwards its message
TcpForwards == ReadReturns /\ msg_log' # msg_log

\* C37: what a receive forwards is the start of what it read, and the bytes
\* it cut off are gone: they are not waiting on the socket, not in the
\* accumulator of read_packet and in no message read later.  The TCP receive
\* that forwards has read every byte that was waiting on the connection; the
\* UDP receive has taken the whole datagram from the socket.
C37_CutBytesAreLost ==
    /\ [](\A j \in 1..Len(msg_log) :
             /\ msg_log[j].msg = SubSeq(msg_log[j].raw, 1, Len(msg_log[j].msg))
             /\ CutOff(j) \cap Waiting = {}
             /\ CutOff(j) \cap Range(whole_received_packet) = {}
             /\ \A k \in (j + 1)..Len(msg_log) :
                   CutOff(j) \cap Range(msg_log[k].raw) = {})
    /\ [][TcpForwards => in_buf' = << >>]_vars

\* C37 witness: a ReceiveMessageWithMaxSize(1) cut a datagram of two bytes,
\* and the receive after it returned the next datagram, whole.
C37_Witness ==
    /\ proto = "udp"
    /\ Len(msg_log) = 2
    /\ executed[msg_log[1].at].ins = ReceiveMessageWithMaxSize(1)
    /\ Len(msg_log[1].raw) = 2
    /\ Len(msg_log[1].msg) = 1
    /\ CutOff(1) # {}
    /\ msg_log[2].raw # << >>
    /\ msg_log[2].msg = msg_log[2].raw

\* the worker has ended in one of the ways of the claim: a StopExchange, the
\* end of its wait for a batch, a fatal error
Ended == pc = "done" /\ exit_reason \in {"stop", "starved", "fatal"}

\* C38: once the worker has ended, by a StopExchange, by starvation or by a
\* fatal error, everything it produced and that was not polled is still in
\* its channel, in order, and only a poll takes it out; both polls can still
\* be called, each returns and removes the oldest item of its channel, and
\* returns None only when the channel is empty.
C38_RetrievableAfterEnd ==
    /\ [](Ended =>
             /\ popped_msgs \o message_q = Forwarded
             /\ popped_errs \o error_q = Reported
             /\ ENABLED pop_received_message
             /\ ENABLED pop_server_error)
    /\ [][Ended =>
            /\ message_q' # message_q => MessagePolled
            /\ error_q' # error_q => ErrorPolled
            /\ MessagePolled =>
                  IF message_q = << >>
                  THEN ret' = Ret("pop_received_message", "None", << >>)
                  ELSE /\ ret' = Ret("pop_received_message", "Some", Head(message_q))
                       /\ message_q' = Tail(message_q)
            /\ ErrorPolled =>
                  IF error_q = << >>
                  THEN ret' = Ret("pop_server_error", "None", << >>)
                  ELSE /\ ret' = Ret("pop_server_error", "Some", << Head(error_q) >>)
                       /\ error_q' = Tail(error_q)]_vars

\* C38 witness: the worker ended on the failure to set the read timeout, which
\* it reported in the step that ended it; a poll, after the end then, has
\* returned that error, and the poll after it None.
C38_Witness ==
    /\ pc = "done"
    /\ exit_reason = "fatal"
    /\ Reported = << "UnableToSetReadTimeout" >>
    /\ popped_errs = Reported
    /\ error_q = << >>
    /\ ret = Ret("pop_server_error", "None", << >>)

(***************************************************************************)
(* The end of the worker thread, step by step.                             *)
(*                                                                         *)
(* RecvTimeout takes the end of the wait and the end of the thread as one  *)
(* step.  In the code recv_timeout returns Err first, the while loop and   *)
(* the function return, and the receiver of the instruction channel is     *)
(* dropped only when the closure of the thread ends; until then a send on  *)
(* the channel succeeds.                                                   *)
(***************************************************************************)
\* recv_timeout returns Err: the while loop ends and handle_connection /
\* handle_dgram_stream is about to return; the receiver is still there
RecvTimeoutReturns ==
    /\ pc = "await"
    /\ instruction_q = << >>
    /\ pc' = "return"
    /\ exit_reason' = IF handle = "dropped" THEN "disconnected" ELSE "starved"
    /\ UNCHANGED <<instructions, ip, stream>>
    /\ UNCHANGED <<error_q, err_log>>
    /\ UNCHANGED <<instruction_q, last_received, whole_received_packet, message_q,
                   sent, executed, n_recv, msg_log>>
    /\ UNCHANGED <<ctl_vars, net_vars, setup_vars, list>>
    /\ UNCHANGED n_accept

\* the closure of the thread ends: the engine is dropped, with its socket,
\* its senders and the receiver of the instruction channel, and with the
\* receiver whatever is in the channel
ThreadExit ==
    /\ pc = "return"
    /\ Terminate(exit_reason)
    /\ UNCHANGED <<error_q, err_log>>
    /\ UNCHANGED <<instruction_q, last_received, whole_received_packet, message_q,
                   sent, executed, n_recv, msg_log>>
    /\ UNCHANGED <<ctl_vars, net_vars, setup_vars, list>>
    /\ UNCHANGED n_accept

\* Spec with the end of the wait and the end of the thread as two steps
NextRace ==
    \/ \E port \in {0} \cup Ports : new_with_opts(port)
    \/ TcpAccept
    \/ TcpAcceptFail
    \/ SetReadTimeout
    \/ SetReadTimeoutFail
    \/ RecvInstructions
    \/ RecvTimeoutReturns
    \/ ThreadExit
    \/ ExecSendMessage
    \/ ExecSendMessageDepending
    \/ ExecStopExchange
    \/ TcpRead
    \/ TcpReadTimeout
    \/ UdpReceive
    \/ UdpReceiveTimeout
    \/ \E batch \in Batches(MaxInstructions - FlatLen(submitted)) :
          add_mock_instructions(batch)
    \/ ClientConnect
    \/ \E len \in 1..MaxBytes : ClientWrite(len)
    \/ ClientClose
    \/ \E peer \in Peers, len \in 1..MaxBytes : PeerSend(peer, len)

SpecRace == Init /\ [][NextRace]_vars

\* C39 as stated: a worker that has ended has executed every instruction of
\* every batch for which add_mock_instructions returned Ok, unless it ended on
\* a StopExchange or on a fatal error of its setup.
C39_AcceptedBatchesExecuted ==
    pc = "done" =>
        \/ Trace = Flatten(submitted, 1)
        \/ Stopped /\ exit_reason = "stop"
        \/ exit_reason = "fatal" /\ executed = << >>

\* C39, the failing case: the wait of the worker timed out on an empty
\* channel; before the thread had ended add_mock_instructions was called and
\* returned Ok; the thread has ended, by starvation, with the batch in the
\* channel, not one of its instructions executed and no error reported for
\* it.
C39_LostBatch ==
    /\ handle = "alive"
    /\ pc = "done"
    /\ exit_reason = "starved"
    /\ ~Stopped
    /\ ret = Ret("add_mock_instructions", "Ok", << >>)
    /\ Len(instruction_q) = 1
    /\ submitted[Len(submitted)] = instruction_q[1]
    /\ Len(executed) + Len(instruction_q[1]) = FlatLen(submitted)
    /\ err_log = << >>

(***************************************************************************)
(* The earlier TCP engine (server_mocker/tcp_server_mocker.rs).            *)
(*                                                                         *)
(* Its worker is written over the same variables: its timeouts and its     *)
(* buffer size are constants, its errors are built by                      *)
(* ServerMockerError::new(message, fatality), its receive arms leave on    *)
(* `continue` when the read fails.  The error channel and its log hold,    *)
(* for both engines, the kind of each error: for this engine the kind its  *)
(* message tells.                                                          *)
(***************************************************************************)
\* TcpServerMocker::DEFAULT_SOCKET_READER_BUFFER_SIZE (1024), scaled down as
\* reader_buffer_size is
DEFAULT_SOCKET_READER_BUFFER_SIZE == 2

\* ServerMockerError::new(message, fatality), the detail of the io error left
\* out of the message
ServerMockerError_new(message, fatality) == [message |-> message, fatality |-> fatality]

\* the errors the earlier engine builds, each at its place
MockerBindError ==
    ServerMockerError_new("Failed to bind TCP listener on port", "Fatal")
MockerLocalAddrError ==
    ServerMockerError_new("Failed to get local address of TCP listener", "Fatal")
MockerAcceptError ==
    ServerMockerError_new("Failed to accept incoming client on port", "Fatal")
MockerSubmitError ==
    ServerMockerError_new("Failed to send instructions list to TCP server mocker",
                          "NonFatal")
MockerTimeoutError ==
    ServerMockerError_new("Failed to set read timeout on TCP stream", "Fatal")
MockerReadError == ServerMockerError_new("Failed to read from TCP stream", "NonFatal")
MockerWriteError == ServerMockerError_new("Failed to write to TCP stream", "NonFatal")

MockerErrors ==
    {MockerBindError, MockerLocalAddrError, MockerAcceptError, MockerSubmitError,
     MockerTimeoutError, MockerReadError, MockerWriteError}

\* the kind of an error of the earlier engine: the failure its message tells,
\* named as the variant of ServerMockerError that stands for that failure
kind(err) ==
    CASE err.message = "Failed to bind TCP listener on port" -> "UnableToBindListener"
      [] err.message = "Failed to get local address of TCP listener" ->
             "UnableToGetLocalAddress"
      [] err.message = "Failed to accept incoming client on port" ->
             "UnableToAcceptConnection"
      [] err.message = "Failed to send instructions list to TCP server mocker" ->
             "UnableToSendInstructions"
      [] err.message = "Failed to set read timeout on TCP stream" ->
             "UnableToSetReadTimeout"
      [] err.message = "Failed to read from TCP stream" -> "UnableToReadTcpStream"
      [] err.message = "Failed to write to TCP stream" -> "UnableToWriteTcpStream"

\* error_sender.send(err).unwrap(), then Continue
MockerSendError(err, at, Continue) ==
    IF handle = "dropped"
    THEN UNCHANGED <<error_q, err_log>> /\ Terminate("panic")
    ELSE /\ error_q' = Append(error_q, kind(err))
         /\ err_log' = Append(err_log, [at |-> at, err |-> kind(err)])
         /\ Continue

\* tcp_listener.accept() returns Ok: incoming_client.0 is the stream
MockerTcpAccept ==
    /\ proto = "tcp"
    /\ pc = "accept"
    /\ client # "init"
    /\ pc' = "set_timeout"
    /\ stream' = "open"
    /\ n_accept' = n_accept + 1
    /\ UNCHANGED <<exit_reason, instructions, ip, error_q, err_log>>
    /\ UNCHANGED <<instruction_q, last_received, whole_received_packet, message_q,
                   sent, executed, n_recv, msg_log>>
    /\ UNCHANGED <<ctl_vars, net_vars, setup_vars, list>>

\* tcp_listener.accept() returns Err: the error is sent, the thread returns
MockerTcpAcceptFail ==
    /\ proto = "tcp"
    /\ pc = "accept"
    /\ MockerSendError(MockerAcceptError, 0, Terminate("fatal"))
    /\ n_accept' = n_accept + 1
    /\ UNCHANGED <<instruction_q, last_received, whole_received_packet, message_q,
                   sent, executed, n_recv, msg_log>>
    /\ UNCHANGED <<ctl_vars, net_vars, setup_vars, list>>

\* set_read_timeout(..).is_err() is false; last_received_message = None
MockerSetReadTimeout ==
    /\ proto = "tcp"
    /\ pc = "set_timeout"
    /\ pc' = "await"
    /\ last_received' = None
    /\ UNCHANGED <<exit_reason, instructions, ip, stream, error_q, err_log>>
    /\ UNCHANGED <<instruction_q, whole_received_packet, message_q,
                   sent, executed, n_recv, msg_log, n_accept>>
    /\ UNCHANGED <<ctl_vars, net_vars, setup_vars, list>>

\* set_read_timeout(..).is_err(): the error is sent, handle_connection returns
MockerSetReadTimeoutFail ==
    /\ proto = "tcp"
    /\ pc = "set_timeout"
    /\ MockerSendError(MockerTimeoutError, 0, Terminate("fatal"))
    /\ UNCHANGED <<instruction_q, last_received, whole_received_packet, message_q,
                   sent, executed, n_recv, msg_log, n_accept>>
    /\ UNCHANGED <<ctl_vars, net_vars, setup_vars, list>>

\* loop { match instructions_receiver.recv_timeout(..) { Ok(instructions_list)
\* => instructions_list.instructions, .. } }
MockerRecvInstructions ==
    /\ proto = "tcp"
    /\ pc = "await"
    /\ instruction_q # << >>
    /\ instructions' = Head(instruction_q)
    /\ instruction_q' = Tail(instruction_q)
    /\ n_recv' = n_recv + 1
    /\ ip' = 1
    /\ pc' = "exec"
    /\ UNCHANGED <<exit_reason, stream, error_q, err_log>>
    /\ UNCHANGED <<last_received, whole_received_packet, message_q, sent, executed,
                   msg_log, n_accept>>
    /\ UNCHANGED <<ctl_vars, net_vars, setup_vars, list>>

\* Err(_) => break: the loop ends and handle_connection returns
MockerRecvTimeout ==
    /\ proto = "tcp"
    /\ pc = "await"
    /\ instruction_q = << >>
    /\ Terminate(IF handle = "dropped" THEN "disconnected" ELSE "starved")
    /\ UNCHANGED <<error_q, err_log>>
    /\ UNCHANGED <<instruction_q, last_received, whole_received_packet, message_q,
                   sent, executed, n_recv, msg_log, n_accept>>
    /\ UNCHANGED <<ctl_vars, net_vars, setup_vars, list>>

\* TcpServerMocker::send_packet: the results tcp_stream.write_all(&packet) can
\* have, the error as the engine builds it
mocker_send_packet(packet) ==
    {[ok |-> TRUE, to |-> TcpPeer]}
    \cup (IF client = "closed" THEN {[ok |-> FALSE, err |-> MockerWriteError]} ELSE {})

\* if let Err(e) = Self::send_packet(..) { error_sender.send(e).unwrap() }
MockerSend(packet) ==
    \E r \in mocker_send_packet(packet) :
        IF r.ok
        THEN /\ sent' = Append(sent, [at |-> At, to |-> r.to, data |-> packet])
             /\ UNCHANGED <<error_q, err_log>>
             /\ Advance
        ELSE /\ UNCHANGED sent
             /\ MockerSendError(r.err, At, Advance)

\* the arm ServerMockerInstruction::SendMessage(binary_message)
MockerExecSendMessage ==
    /\ proto = "tcp"
    /\ pc = "exec"
    /\ Current.op = "SendMessage"
    /\ executed' = Append(executed, Dispatched(None))
    /\ MockerSend(Current.msg)
    /\ UNCHANGED <<instruction_q, last_received, whole_received_packet, message_q,
                   n_recv, msg_log, n_accept>>
    /\ UNCHANGED <<ctl_vars, net_vars, setup_vars, list>>

\* the arm ServerMockerInstruction::SendMessageDependingOnLastReceivedMessage
MockerExecSendMessageDepending ==
    /\ proto = "tcp"
    /\ pc = "exec"
    /\ Current.op = "SendMessageDependingOnLastReceivedMessage"
    /\ LET message_to_send == sent_message_calculator(Current.f, last_received)
       IN  /\ executed' = Append(executed, Dispatched(last_received))
           /\ IF message_to_send # None
              THEN MockerSend(message_to_send[1])
              ELSE UNCHANGED <<sent, error_q, err_log>> /\ Advance
    /\ UNCHANGED <<instruction_q, last_received, whole_received_packet, message_q,
                   n_recv, msg_log, n_accept>>
    /\ UNCHANGED <<ctl_vars, net_vars, setup_vars, list>>

\* the arm ServerMockerInstruction::StopExchange: return
MockerExecStopExchange ==
    /\ proto = "tcp"
    /\ pc = "exec"
    /\ Current.op = "StopExchange"
    /\ executed' = Append(executed, Dispatched(None))
    /\ Terminate("stop")
    /\ UNCHANGED <<instruction_q, last_received, whole_received_packet, message_q,
                   error_q, sent, n_recv, msg_log, err_log, n_accept>>
    /\ UNCHANGED <<ctl_vars, net_vars, setup_vars, list>>

\* one turn of the loop of TcpServerMocker::read_packet whose read returns Ok;
\* when the loop breaks, the rest of the receive arm: the truncation in the
\* arm ReceiveMessageWithMaxSize, last_received_message = Some(clone), and
\* message_sender.send(..).unwrap()
MockerTcpRead ==
    /\ proto = "tcp"
    /\ pc \in {"exec", "read"}
    /\ Current.op \in {"ReceiveMessage", "ReceiveMessageWithMaxSize"}
    /\ in_buf # << >> \/ client = "closed"
    /\ LET bytes_read == Min(DEFAULT_SOCKET_READER_BUFFER_SIZE, Len(in_buf))
           so_far == whole_received_packet \o SubSeq(in_buf, 1, bytes_read)
           message == IF Current.op = "ReceiveMessageWithMaxSize"
                      THEN truncate(so_far, Current.n) ELSE so_far
       IN  /\ in_buf' = drain(in_buf, bytes_read)
           /\ executed' = IF pc = "exec" THEN Append(executed, Dispatched(None))
                          ELSE executed
           /\ IF bytes_read < DEFAULT_SOCKET_READER_BUFFER_SIZE
              THEN /\ whole_received_packet' = << >>
                   /\ last_received' = Some(message)
                   /\ IF handle = "dropped"
                      THEN UNCHANGED <<message_q, msg_log>> /\ Terminate("panic")
                      ELSE /\ message_q' = Append(message_q, message)
                           /\ msg_log' = Append(msg_log,
                                  [at |-> IF pc = "exec" THEN At ELSE Len(executed),
                                   raw |-> so_far, msg |-> message, from |-> TcpPeer])
                           /\ Advance
              ELSE /\ whole_received_packet' = so_far
                   /\ pc' = "read"
                   /\ UNCHANGED <<last_received, message_q, msg_log, exit_reason,
                                  instructions, ip, stream>>
    /\ UNCHANGED <<instruction_q, error_q, err_log, sent, n_recv, n_accept>>
    /\ UNCHANGED <<ctl_vars, setup_vars, list, client, nwritten, client_pos, client_read,
                   peer2_vars>>

\* a `continue` that would go to the next turn of the outer loop, the wait
\* for the next batch, and leave the rest of the batch
MockerTcpReadTimeout_leaves_batch ==
    /\ proto = "tcp"
    /\ pc \in {"exec", "read"}
    /\ Current.op \in {"ReceiveMessage", "ReceiveMessageWithMaxSize"}
    /\ in_buf = << >> /\ client # "closed"
    /\ executed' = IF pc = "exec" THEN Append(executed, Dispatched(None))
                   ELSE executed
    /\ whole_received_packet' = << >>
    /\ MockerSendError(MockerReadError, IF pc = "exec" THEN At ELSE Len(executed),
                       /\ pc' = "await" /\ ip' = 0 /\ instructions' = << >>
                       /\ UNCHANGED <<exit_reason, stream>>)
    /\ UNCHANGED <<instruction_q, last_received, message_q, msg_log, sent, n_recv,
                   n_accept>>
    /\ UNCHANGED <<ctl_vars, net_vars, setup_vars, list>>

\* a read of read_packet returns Err: `?` returns the error the map_err
\* built, the arm sends it and leaves on `continue`, which is the next turn of
\* the for loop over the batch
MockerTcpReadTimeout ==
    /\ proto = "tcp"
    /\ pc \in {"exec", "read"}
    /\ Current.op \in {"ReceiveMessage", "ReceiveMessageWithMaxSize"}
    /\ in_buf = << >> /\ client # "closed"
    /\ executed' = IF pc = "exec" THEN Append(executed, Dispatched(None))
                   ELSE executed
    /\ whole_received_packet' = << >>
    /\ MockerSendError(MockerReadError, IF pc = "exec" THEN At ELSE Len(executed),
                       Advance)
    /\ UNCHANGED <<instruction_q, last_received, message_q, msg_log, sent, n_recv,
                   n_accept>>
    /\ UNCHANGED <<ctl_vars, net_vars, setup_vars, list>>

\* the steps of the worker thread of the earlier engine
MockerWorker ==
    \/ MockerTcpAccept
    \/ MockerTcpAcceptFail
    \/ MockerSetReadTimeout
    \/ MockerSetReadTimeoutFail
    \/ MockerRecvInstructions
    \/ MockerRecvTimeout
    \/ MockerExecSendMessage
    \/ MockerExecSendMessageDepending
    \/ MockerExecStopExchange
    \/ MockerTcpRead
    \/ MockerTcpReadTimeout

\* the steps of the worker thread of the engine of tcp_server.rs
TcpWorker == proto = "tcp" /\ (WorkerStep \/ TcpAcceptFail)

\* the mock with a worker that takes each of its steps as the one engine or
\* as the other, and the handle that may be dropped
NextBoth ==
    \/ NextDrop
    \/ MockerWorker

SpecBoth == Init /\ [][NextBoth]_vars

\* C40: in every reachable state of a TCP mock the two engines can take the
\* same steps and no others: whatever one does, on the same batch, the same
\* bytes waiting and the same result of the socket call, the other does too,
\* with the same socket write, the same message forwarded, the same
\* last-received state, an error of the same kind in the same place, and the
\* same end of the thread; and each error of the earlier engine has the
\* fatality of the error of its kind.
C40_EnginesEquivalent ==
    /\ [][proto = "tcp" => (MockerWorker <=> TcpWorker)]_vars
    /\ [](\A err \in MockerErrors :
             /\ kind(err) \in ServerMockerError
             /\ err.fatality = "Fatal" <=> is_fatal(kind(err)))
    /\ [](DEFAULT_SOCKET_READER_BUFFER_SIZE = reader_buffer_size)

\* C40 witness: in a batch of three, a receive failed to read and reported
\* it, the receive after it forwarded a message that is not empty, and the
\* StopExchange after it ended the worker.
C40_Witness ==
    /\ proto = "tcp"
    /\ Len(submitted) = 1
    /\ Len(executed) = 3
    /\ IsReceive(executed[1].ins)
    /\ FailedWith(1, {"UnableToReadTcpStream"})
    /\ MsgsAt(2) # {}
    /\ msg_log[1].msg # << >>
    /\ executed[3].ins = StopExchange
    /\ exit_reason = "stop"

====
